---- MODULE Spec2Model ----
(***************************************************************************)
(* Model of pkg-inspector's archive ingestion core:                        *)
(*   wasm/tgz-parser/main.go  (eager parse, lazy index, range read)        *)
(*   src/lib/tar-store.ts, src/lib/cors.ts, src/App.tsx and the hooks      *)
(*   useWasm and useHighlighter                                            *)
(*                                                                         *)
(* Byte strings are run-length encoded: a byte string is a sequence of     *)
(* runs <<b, n>> (n >= 1 copies of byte b, adjacent runs differ in b), so  *)
(* that files of 512 KiB keep their real length.  Data bytes are drawn     *)
(* from the alphabet                                                       *)
(*     0 (NUL)  65 'A'  66 'B'  195 (0xC3, lead of a 2-byte sequence)      *)
(*     169 (0xA9, continuation byte)  254, 255 (never valid in UTF-8)      *)
(* and the 500 field bytes of the tar header block of entry k are the      *)
(* opaque symbol HdrSym(k).                                                *)
(***************************************************************************)
EXTENDS Integers, Sequences, FiniteSets, TLC

\* ------------------------------------------------------------------------
\* Program constants (main.go:13-17)
\* ------------------------------------------------------------------------
maxFileContentSize == 524288

maxTotalSize == 104857600

binaryCheckSize == 512

\* tar block size (archive/tar: every header and data extent is block aligned)
blockSize == 512

\* buffer size io.Copy(io.Discard, tr) reads with
copyBufSize == 8192

Min(a, b) == IF a < b THEN a ELSE b

\* ------------------------------------------------------------------------
\* Run-length encoded byte strings
\* ------------------------------------------------------------------------
Run(b, n) == IF n > 0 THEN << <<b, n>> >> ELSE << >>

RECURSIVE RLen(_)
RLen(s) == IF s = << >> THEN 0 ELSE s[1][2] + RLen(Tail(s))

\* concatenation, merging the two runs that meet when they hold the same byte
RCat(s, t) ==
  IF s = << >> THEN t
  ELSE IF t = << >> THEN s
  ELSE IF s[Len(s)][1] = t[1][1]
       THEN SubSeq(s, 1, Len(s) - 1)
              \o << <<t[1][1], s[Len(s)][2] + t[1][2]>> >>
              \o Tail(t)
       ELSE s \o t

\* the first k bytes of s (all of s when it is shorter)
RECURSIVE RTake(_, _)
RTake(s, k) ==
  IF k <= 0 \/ s = << >> THEN << >>
  ELSE IF s[1][2] >= k THEN << <<s[1][1], k>> >>
  ELSE << s[1] >> \o RTake(Tail(s), k - s[1][2])

\* s without its first k bytes (empty when it is shorter)
RECURSIVE RDrop(_, _)
RDrop(s, k) ==
  IF k <= 0 \/ s = << >> THEN s
  ELSE IF s[1][2] > k THEN << <<s[1][1], s[1][2] - k>> >> \o Tail(s)
  ELSE RDrop(Tail(s), k - s[1][2])

\* the byte at 0-based index i of s (i < RLen(s))
RECURSIVE RAt(_, _)
RAt(s, i) == IF i < s[1][2] THEN s[1][1] ELSE RAt(Tail(s), i - s[1][2])

\* concatenation of the byte strings cs[i..j], in order
RECURSIVE RConcatRange(_, _, _)
RConcatRange(cs, i, j) ==
  IF i > j THEN << >>
  ELSE IF i = j THEN cs[i]
  ELSE LET mid == (i + j) \div 2
       IN  RCat(RConcatRange(cs, i, mid), RConcatRange(cs, mid + 1, j))

\* concatenation of a sequence of byte strings, in order
RConcat(cs) == RConcatRange(cs, 1, Len(cs))

\* Blob.slice(start, end): clamps to the blob's size
BlobSlice(bl, start, end) == RTake(RDrop(bl, start), end - start)

\* ------------------------------------------------------------------------
\* Binary detection and text conversion
\* ------------------------------------------------------------------------
\* the symbol standing for the field bytes of the header block of entry k
HdrSym(k) == 1000 + k

\* U+FFFD, what json.Marshal writes for a byte that is not valid UTF-8
replacementChar == 65533

\* class of a byte for UTF-8 decoding; the alphabet holds no lead byte of a
\* 3- or 4-byte sequence, and header field bytes count as plain text bytes
ByteClass(b) ==
  IF b >= 1000 THEN "ascii"
  ELSE IF b < 128 THEN "ascii"
  ELSE IF b < 192 THEN "cont"
  ELSE IF b >= 194 /\ b < 224 THEN "lead2"
  ELSE "bad"

\* utf8.Valid(p), decoding run by run; pend = continuation bytes still owed
RECURSIVE utf8ValidFrom(_, _)
utf8ValidFrom(s, pend) ==
  IF s = << >> THEN pend = 0
  ELSE LET c == ByteClass(s[1][1])
           n == s[1][2]
       IN  CASE c = "ascii" -> pend = 0 /\ utf8ValidFrom(Tail(s), 0)
             [] c = "cont"  -> pend = 1 /\ n = 1 /\ utf8ValidFrom(Tail(s), 0)
             [] c = "lead2" -> pend = 0 /\ n = 1 /\ utf8ValidFrom(Tail(s), 1)
             [] OTHER       -> FALSE

utf8Valid(s) == utf8ValidFrom(s, 0)

\* the for loop of isBinaryContent: some data[i] = 0 with i < n
hasNul(s) == \E i \in 1..Len(s) : s[i][1] = 0

\* the variant that inspects the whole input instead of the first
\* binaryCheckSize bytes
isBinaryContent_NoCap(data) == hasNul(data) \/ ~utf8Valid(data)

isBinaryContent(data) ==
  LET len == RLen(data)
      n   == IF len > binaryCheckSize THEN binaryCheckSize ELSE len
      pre == RTake(data, n)
  IN  hasNul(pre) \/ ~utf8Valid(pre)

\* string(buf) as it reaches JavaScript through json.Marshal and JSON.parse:
\* well-formed sequences are kept, every other byte becomes U+FFFD
textRun(s, i) ==
  LET b == s[i][1]
      n == s[i][2]
      c == ByteClass(b)
  IN  CASE c = "ascii" -> Run(b, n)
        [] c = "lead2" ->
             RCat(Run(replacementChar, n - 1),
                  IF i < Len(s) /\ ByteClass(s[i + 1][1]) = "cont"
                    THEN Run(b, 1) ELSE Run(replacementChar, 1))
        [] c = "cont" ->
             IF i > 1 /\ ByteClass(s[i - 1][1]) = "lead2"
               THEN RCat(Run(b, 1), Run(replacementChar, n - 1))
               ELSE Run(replacementChar, n)
        [] OTHER -> Run(replacementChar, n)

jsonString(s) == RConcat([i \in 1..Len(s) |-> textRun(s, i)])

\* ------------------------------------------------------------------------
\* fetchError.Error() and itoa
\* ------------------------------------------------------------------------
digitChar == <<"0", "1", "2", "3", "4", "5", "6", "7", "8", "9">>

RECURSIVE itoaDigits(_)
itoaDigits(n) ==
  IF n = 0 THEN << >>
  ELSE itoaDigits(n \div 10) \o << digitChar[(n % 10) + 1] >>

itoa(n) ==
  IF n = 0 THEN << "0" >>
  ELSE IF n < 0 THEN << "-" >> \o itoaDigits(-n)
  ELSE itoaDigits(n)

fetchError(status, statusText) == << "HTTP " >> \o itoa(status) \o << " ", statusText >>

\* ------------------------------------------------------------------------
\* Archives: the inputs of the calls
\* ------------------------------------------------------------------------
TypeReg == "0"

TypeSymlink == "2"

TypeDir == "5"

TypeCont == "7"

\* archive/tar isHeaderOnlyType: these entries carry no data blocks
isHeaderOnlyType(flag) == flag \in {TypeSymlink, TypeDir}

\* one archive member: the header fields, whether the header block is well
\* formed, and the data bytes that follow the header in the tar stream
Member(name, flag, size, data) ==
  [name |-> name, typeflag |-> flag, size |-> size, data |-> data, hdrOK |-> TRUE]

TextA(n) == Run(65, n)

\* ErrNone is Go's nil error; gzip.Reader.Read ends a stream with one of the others
ErrNone == ""

ErrEOF == "EOF"

ErrUnexpectedEOF == "unexpected EOF"

ErrChecksum == "gzip: invalid checksum"

ErrGzipHeader == "gzip: invalid header"

ErrTarHeader == "archive/tar: invalid tar header"

\* An archive: members in order, whether the two zero blocks of the end
\* marker follow, how many decompressed bytes the gzip stream yields (-1: all),
\* the error gzip reports once they are exhausted (EOF for a sound stream),
\* whether the gzip header is valid, and the positions at which a read of the
\* decompressor returns short (they depend on the compressed stream only).
Archive(members, trailer, keep, end, gzOK, cuts) ==
  [members |-> members, trailer |-> trailer, keep |-> keep, end |-> end,
   gzOK |-> gzOK, cuts |-> cuts]

Sound(members, cuts) == Archive(members, TRUE, -1, ErrEOF, TRUE, cuts)

BigSize == maxFileContentSize + 1

Archives ==
  << \* 1: directory, small text, two files of exactly the threshold, one a byte longer, directory last
     Sound(<< Member("pkg/", TypeDir, 0, << >>),
              Member("pkg/readme.txt", TypeReg, 50, TextA(50)),
              Member("pkg/edge.txt", TypeReg, maxFileContentSize, TextA(maxFileContentSize)),
              Member("pkg/edge.bin", TypeReg, maxFileContentSize,
                     << <<65, 3>>, <<0, maxFileContentSize - 3>> >>),
              Member("pkg/over.txt", TypeReg, BigSize, TextA(BigSize)),
              Member("pkg/lib/", TypeDir, 0, << >>) >>, {}),
     \* 2: binary sniffing cases
     Sound(<< Member("nul.bin", TypeReg, 10, << <<65, 4>>, <<0, 1>>, <<65, 5>> >>),
              Member("ascii.txt", TypeReg, 10, Run(66, 10)),
              Member("straddle.txt", TypeReg, 513, << <<65, 511>>, <<195, 1>>, <<169, 1>> >>),
              Member("late.txt", TypeReg, 600, << <<65, 512>>, <<0, 1>>, <<255, 1>>, <<65, 86>> >>),
              Member("utf8.txt", TypeReg, 4, << <<65, 1>>, <<195, 1>>, <<169, 1>>, <<65, 1>> >>),
              Member("empty.txt", TypeReg, 0, << >>) >>, {100, 700, 1500}),
     \* 3: members that are neither regular files nor directories
     Sound(<< Member("a.txt", TypeReg, 10, TextA(10)),
              Member("lnk", TypeSymlink, 0, << >>),
              Member("cont", TypeCont, 600, Run(66, 600)),
              Member("b.txt", TypeReg, 3, TextA(3)) >>, {512}),
     \* 4: stream ends inside the data of a small file
     Archive(<< Member("a.txt", TypeReg, 10, TextA(10)) >>, TRUE, 516, ErrEOF, TRUE, {}),
     \* 5: stream ends inside a file, after its first binaryCheckSize bytes
     Archive(<< Member("a.txt", TypeReg, 10, TextA(10)),
                Member("b.txt", TypeReg, 600, TextA(600)) >>, TRUE, 1536 + 550, ErrEOF, TRUE, {}),
     \* 6: stream ends inside a file over the threshold
     Archive(<< Member("over.bin", TypeReg, BigSize, Run(255, BigSize)) >>,
             TRUE, 512 + 20000, ErrUnexpectedEOF, TRUE, {}),
     \* 7: a malformed header block after a sound member
     Sound(<< Member("a.txt", TypeReg, 10, TextA(10)),
              [Member("bad", TypeReg, 10, TextA(10)) EXCEPT !.hdrOK = FALSE] >>, {}),
     \* 8: not a gzip stream
     Archive(<< Member("a.txt", TypeReg, 10, TextA(10)) >>, TRUE, -1, ErrEOF, FALSE, {}),
     \* 9: gzip fails inside the data of a file
     Archive(<< Member("a.txt", TypeReg, 600, TextA(600)) >>, TRUE, 612, ErrChecksum, TRUE, {}),
     \* 10: no member at all
     Sound(<< >>, {}),
     \* 11: no end marker after the last member
     Archive(<< Member("a.txt", TypeReg, 10, TextA(10)) >>, FALSE, -1, ErrEOF, TRUE, {1, 515}),
     \* 12: a single zero block as end marker, then a checksum failure
     Archive(<< Member("a.txt", TypeReg, 10, TextA(10)) >>, TRUE, 1536, ErrChecksum, TRUE, {}),
     \* 13: a complete tar stream in a gzip stream whose trailer checksum is wrong
     Archive(<< Member("a.txt", TypeReg, 10, TextA(10)) >>, TRUE, -1, ErrChecksum, TRUE, {}),
     \* 14: an empty file, then a directory
     Sound(<< Member(".keep", TypeReg, 0, << >>),
              Member("d/", TypeDir, 0, << >>) >>, {})
  >>

ArchiveIds == 1..Len(Archives)

\* blockPadding of archive/tar: bytes up to the next block boundary
blockPadding(n) == (blockSize - (n % blockSize)) % blockSize

zeroBlock == Run(0, blockSize)

\* the header block of member k: 500 field bytes and 12 bytes of NUL padding
HeaderBlock(a, k) ==
  IF Archives[a].members[k].hdrOK
    THEN << <<HdrSym(k), 500>>, <<0, 12>> >>
    ELSE Run(254, blockSize)

MemberBytes(a, k) ==
  LET m == Archives[a].members[k]
  IN  RCat(HeaderBlock(a, k),
           RCat(m.data, Run(0, blockPadding(RLen(m.data)))))

RECURSIVE MembersBytes(_, _)
MembersBytes(a, k) ==
  IF k = 0 THEN << >> ELSE RCat(MembersBytes(a, k - 1), MemberBytes(a, k))

\* the first keep bytes of the stream, all of it when keep < 0
keepBytes(full, keep) == IF keep < 0 THEN full ELSE RTake(full, keep)

\* the decompressed byte stream of archive a
TarBytes(a) ==
  keepBytes(RCat(MembersBytes(a, Len(Archives[a].members)),
                 IF Archives[a].trailer THEN Run(0, 2 * blockSize) ELSE << >>),
            Archives[a].keep)

\* ------------------------------------------------------------------------
\* HTTP responses (inputs of jsFetch)
\* ------------------------------------------------------------------------
\* fetch() either throws or yields a response; cl is the content-length
\* header as a sequence of characters, << >> when the header is absent
Response(throws, ok, status, statusText, cl) ==
  [throws |-> throws, ok |-> ok, status |-> status, statusText |-> statusText, cl |-> cl]

NoResponse == Response(FALSE, FALSE, 0, "", << >>)

Responses ==
  { Response(TRUE, FALSE, 0, "TypeError: Failed to fetch", << >>),
    Response(FALSE, FALSE, 404, "Not Found", << >>),
    Response(FALSE, FALSE, 500, "Internal Server Error", << "1", "2" >>),
    Response(FALSE, TRUE, 200, "OK", << >>),
    Response(FALSE, TRUE, 200, "OK", << "4", "0", "9", "6" >>),
    Response(FALSE, TRUE, 200, "OK", << "2", "0", "9", "7", "1", "5", "2", "0", "0" >>) }

digitValue(c) == (CHOOSE d \in 1..10 : digitChar[d] = c) - 1

isDigit(c) == \E d \in 1..10 : digitChar[d] = c

\* the content-length loop of jsFetch (main.go:188-192)
RECURSIVE parseContentLength(_, _)
parseContentLength(cl, n) ==
  IF cl = << >> THEN n
  ELSE parseContentLength(Tail(cl),
         IF isDigit(cl[1]) THEN n * 10 + digitValue(cl[1]) ELSE n)

\* a jsFetch that hands out the body without looking at response.ok
jsFetch_IgnoreOk(r) ==
  IF r.throws
    THEN [body |-> FALSE, contentLength |-> 0, status |-> 0, err |-> << r.statusText >>]
    ELSE [body |-> TRUE, contentLength |-> parseContentLength(r.cl, 0),
          status |-> r.status, err |-> << >>]

\* jsFetch: (body, contentLength, err); body tells whether newStreamReader ran
jsFetch(r) ==
  IF r.throws
    THEN [body |-> FALSE, contentLength |-> 0, status |-> 0, err |-> << r.statusText >>]
  ELSE IF ~r.ok
    THEN [body |-> FALSE, contentLength |-> 0, status |-> r.status,
          err |-> fetchError(r.status, r.statusText)]
  ELSE [body |-> TRUE, contentLength |-> parseContentLength(r.cl, 0),
        status |-> r.status, err |-> << >>]

\* ------------------------------------------------------------------------
\* Reading the decompressed stream
\* ------------------------------------------------------------------------
SetMin(S) == CHOOSE c \in S : \A d \in S : c <= d

\* bytes a read at position p may return before it stops short: up to the
\* next cut, at most avail
nextStop(cuts, p, avail) ==
  IF {c \in cuts : c > p} = {} THEN avail
  ELSE Min(avail, SetMin({c \in cuts : c > p}) - p)

\* the outcome of a read that returns n bytes of stream s from position p
gzChunk(s, end, p, want, n) ==
  [n    |-> n,
   data |-> RTake(RDrop(s, p), n),
   err  |-> IF RLen(s) = p /\ want > 0 THEN end ELSE ErrNone]

gzReadFrom(s, cuts, end, p, want) ==
  gzChunk(s, end, p, want, Min(want, nextStop(cuts, p, RLen(s) - p)))

\* gz.Read(p) with len(p) = want at position p of the decompressed stream
gzRead(a, p, want) ==
  gzReadFrom(TarBytes(a), Archives[a].cuts, Archives[a].end, p, want)

\* what a reader that needs more bytes makes of the end of the stream
shortRead(err) == IF err = ErrEOF THEN ErrUnexpectedEOF ELSE err

\* ------------------------------------------------------------------------
\* State
\* ------------------------------------------------------------------------
VARIABLES
  aid,      \* the archive behind the URL / in the Uint8Array
  op,       \* the exported call that runs or ran last
  pc,       \* where that call's goroutine stands; "idle" when none runs
  arg,      \* its argument: the input length (parseTgz), the entry read (readFileFromTar)
  resp,     \* the response fetch() gave it
  pos,      \* decompressed bytes the archive reader has read from gz
  need,     \* bytes the running ReadFull / discard still asks for
  acc,      \* bytes gathered so far by it (blk, buf, peek)
  nb,       \* tar.Reader: data bytes of the current member not yet read
  pad,      \* tar.Reader: padding after them
  trErr,    \* tar.Reader.err, the sticky error
  hdr,      \* index of the member whose header tr.Next returned
  entry,    \* the entry under construction
  files,    \* result.Files
  count,    \* countingWriter.count
  sink,     \* the chunks handed to onChunk, in delivery order
  settles,  \* how often resolve or reject was invoked by the call
  last,     \* how the call settled
  readers,  \* stream readers created by the call (newStreamReader)
  cancels,  \* streamReader.Close calls of the call
  failure,  \* first error a fetch, gzip or tar read of the call produced
  eager,    \* result of the last resolved eager call
  lazy,     \* index and chunks of the last resolved indexTgz call
  search,   \* handleSearch: the size its HEAD request gave and the call it chose
  sniffData,   \* a byte string handed to isBinaryContent
  sniffResult, \* what isBinaryContent returned for it, "none" before the call
  chunks,      \* TarStore.chunks
  blob,        \* TarStore.blob
  indexMap,    \* TarStore.indexMap, in insertion order
  rangeReads,  \* __wasm_readFileFromTar calls issued by TarStore.readFile
  storeLast,   \* the last call on the TarStore and its outcome
  storeLog,    \* the calls made on the TarStore, in order
  srBuf,       \* streamReader.buf
  srDone,      \* streamReader.done
  srPc,        \* where the goroutine in streamReader.Read stands
  srP,         \* len(p) of the running Read
  source,      \* what reader.read() will still produce, in order
  pulls,       \* reader.read() promises not yet settled
  pulled,      \* reader.read() calls ever made
  delivered,   \* the chunks the source delivered so far, concatenated
  returned,    \* the bytes Read calls returned so far, concatenated
  readLast,    \* the last Read: its buffer size, leftover and pulls before, result
  tarStoreRef,   \* App: tarStoreRef.current, 0 for null
  appStores,     \* App: the TarStores created by useWasm.indexTgz, in creation order
  appStatus,     \* App: status
  appFiles,      \* App: files
  selectedFile,  \* App: selectedFile
  packageInfo,   \* App: packageInfo, the search it stems from, 0 for null
  searches,      \* App: the handleSearch calls made, in start order, and where each stands
  selects,       \* App: the handleSelectFile calls that reached store.readFile
  latest,        \* App: the handleSearch that started last, 0 after resetToIdle
  loaded,        \* App: paths of the shown list whose content a handleSelectFile loaded
  storeReads,    \* App: TarStore.readFile calls made by handleSelectFile
  activeProxyIndex,  \* cors.ts: activeProxyIndex
  corsCustom,        \* settings: a custom CORS proxy is set
  corsCalls,         \* the corsFetch calls made and where each stands
  hlFile,            \* useHighlighter: the file passed to the hook
  highlightedLines,  \* useHighlighter: highlightedLines, the file they were computed for
  highlighting,      \* useHighlighter: highlighting
  requestIdRef,      \* useHighlighter: requestIdRef.current
  hlPending          \* useHighlighter: highlight() promises not yet resolved

vars == <<aid, op, pc, arg, resp, pos, need, acc, nb, pad, trErr, hdr, entry,
          files, count, sink, settles, last, readers, cancels, failure, eager, lazy,
          search, sniffData, sniffResult,
          chunks, blob, indexMap, rangeReads, storeLast, storeLog,
          srBuf, srDone, srPc, srP, source, pulls, pulled, delivered, returned, readLast,
          tarStoreRef, appStores, appStatus, appFiles, selectedFile, packageInfo,
          searches, selects, latest, loaded, storeReads,
          activeProxyIndex, corsCustom, corsCalls,
          hlFile, highlightedLines, highlighting, requestIdRef, hlPending>>

\* the state of the ingestion calls
callVars == <<aid, op, pc, arg, resp, pos, need, acc, nb, pad, trErr, hdr, entry,
              files, count, sink, settles, last, readers, cancels, failure, eager, lazy,
              search>>

\* the state of a call of isBinaryContent on its own
sniffVars == <<sniffData, sniffResult>>

\* the state of a TarStore
storeVars == <<chunks, blob, indexMap, rangeReads, storeLast, storeLog>>

\* the state of a streamReader and of its source
streamVars == <<srBuf, srDone, srPc, srP, source, pulls, pulled, delivered, returned,
                readLast>>

\* the state of the App component
appVars == <<tarStoreRef, appStores, appStatus, appFiles, selectedFile, packageInfo,
             searches, selects, latest, loaded, storeReads>>

\* the state of cors.ts
corsVars == <<activeProxyIndex, corsCustom, corsCalls>>

\* the state of a useHighlighter hook
hlVars == <<hlFile, highlightedLines, highlighting, requestIdRef, hlPending>>

\* the state of the user interface
uiVars == <<appVars, corsVars, hlVars>>

\* the state outside the ingestion calls, which no step of a call touches
OutsideCall == UNCHANGED <<sniffVars, storeVars, streamVars, uiVars>>

\* the state outside a call of isBinaryContent on its own
OutsideSniff == UNCHANGED <<callVars, storeVars, streamVars, uiVars>>

\* the state outside the TarStore
OutsideStore == UNCHANGED <<callVars, sniffVars, streamVars, uiVars>>

\* the state outside the streamReader
OutsideStream == UNCHANGED <<callVars, sniffVars, storeVars, uiVars>>

\* the state outside the App component
OutsideApp == UNCHANGED <<callVars, sniffVars, storeVars, streamVars, corsVars, hlVars>>

\* the state outside cors.ts
OutsideCors == UNCHANGED <<callVars, sniffVars, storeVars, streamVars, appVars, hlVars>>

\* the state outside the useHighlighter hook
OutsideHighlighter == UNCHANGED <<callVars, sniffVars, storeVars, streamVars, appVars, corsVars>>

EagerOps == {"parseTgz", "fetchAndParseTgz"}

FetchOps == {"fetchAndParseTgz", "indexTgz"}

InputLengths == {4096, maxTotalSize, maxTotalSize + 1}

NoEntry == [path |-> "", size |-> 0, isDir |-> FALSE, isBinary |-> FALSE]

Unsettled(st) == [st |-> st, msg |-> << >>, value |-> << >>]

Resolved(v) == [st |-> "resolved", msg |-> << >>, value |-> v]

Rejected(m) == [st |-> "rejected", msg |-> m, value |-> << >>]

\* no handleSearch has chosen a mode
NoSearch == [size |-> -1, mode |-> "none"]

\* new TarStore(): no chunks, no Blob, an empty index
NullBlob == [isNull |-> TRUE, bytes |-> << >>]

NoStoreCall == [op |-> "none", path |-> "", st |-> "ok", msg |-> << >>,
                content |-> << >>, isBinary |-> FALSE]

StoreInit ==
  /\ chunks = << >> /\ blob = NullBlob /\ indexMap = << >>
  /\ rangeReads = 0 /\ storeLast = NoStoreCall /\ storeLog = << >>

\* no isBinaryContent call on its own
SniffIdle == sniffData = << >> /\ sniffResult = "none"

\* no reader.read() promise settled for the Read
NoEvent == [kind |-> "none", data |-> << >>]

NoRead == [lenp |-> 0, leftover |-> << >>, doneBefore |-> FALSE, pulledBefore |-> 0,
           event |-> NoEvent, n |-> 0, data |-> << >>, err |-> "none"]

\* newStreamReader(body) on a body that produces src
StreamInit(src) ==
  /\ srBuf = << >> /\ srDone = FALSE /\ srPc = "idle" /\ srP = 0
  /\ source = src /\ pulls = 0 /\ pulled = 0
  /\ delivered = << >> /\ returned = << >> /\ readLast = NoRead

\* no file: null
NoFile == [path |-> "", from |-> 0, lazy |-> FALSE, content |-> << >>, isBinary |-> FALSE]

\* the App component after its first render
AppInit ==
  /\ tarStoreRef = 0 /\ appStores = << >> /\ appStatus = "idle"
  /\ appFiles = << >> /\ selectedFile = NoFile /\ packageInfo = 0
  /\ searches = << >> /\ selects = << >> /\ latest = 0
  /\ loaded = {} /\ storeReads = 0

\* cors.ts after module load, no custom proxy in the settings
CorsInit == activeProxyIndex = 0 /\ corsCustom = FALSE /\ corsCalls = << >>

\* useHighlighter(null) after its first render
HighlighterInit ==
  /\ hlFile = NoFile /\ highlightedLines = [path |-> "", lines |-> << >>]
  /\ highlighting = FALSE
  /\ requestIdRef = 0 /\ hlPending = << >>

UiInit == AppInit /\ CorsInit /\ HighlighterInit

CallInit ==
  /\ search = NoSearch
  /\ op = "idle" /\ pc = "idle" /\ arg = 0 /\ resp = NoResponse
  /\ pos = 0 /\ need = 0 /\ acc = << >> /\ nb = 0 /\ pad = 0
  /\ trErr = ErrNone /\ hdr = 0 /\ entry = NoEntry /\ files = << >>
  /\ count = 0 /\ sink = << >> /\ settles = 0 /\ last = Unsettled("none")
  /\ readers = 0 /\ cancels = 0 /\ failure = ErrNone
  /\ eager = [have |-> FALSE, files |-> << >>]
  /\ lazy = [have |-> FALSE, files |-> << >>, chunks |-> << >>]

Init ==
  /\ aid \in ArchiveIds
  /\ CallInit
  /\ SniffIdle
  /\ StoreInit
  /\ UiInit
  /\ StreamInit(<< >>)

\* a call starts on fresh reader, result and tee state
Fresh ==
  /\ pos' = 0 /\ need' = 0 /\ acc' = << >> /\ nb' = 0 /\ pad' = 0
  /\ trErr' = ErrNone /\ hdr' = 0 /\ entry' = NoEntry /\ files' = << >>
  /\ count' = 0 /\ sink' = << >>
  /\ OutsideCall

\* json.Marshal(result): the content strings become JSON text
marshalFiles(fs) ==
  [i \in 1..Len(fs) |->
     IF "content" \in DOMAIN fs[i]
       THEN [fs[i] EXCEPT !.content = jsonString(@)] ELSE fs[i]]

errPrefix(o) == IF o = "indexTgz" THEN "Failed to index tgz: " ELSE "Failed to parse tgz: "

\* the goroutine invokes resolve or reject and returns; the deferred
\* body.Close() runs when a body was obtained
Settle(l) ==
  /\ pc' = "idle"
  /\ last' = l
  /\ settles' = settles + 1
  /\ cancels' = cancels + readers
  /\ eager' = IF op \in EagerOps /\ l.st = "resolved"
                THEN [have |-> TRUE, files |-> l.value] ELSE eager
  /\ lazy' = IF op = "indexTgz" /\ l.st = "resolved"
               THEN [have |-> TRUE, files |-> l.value, chunks |-> sink'] ELSE lazy
  /\ UNCHANGED <<aid, op, arg, resp, readers, search>>
  /\ OutsideCall

\* a handler that resolves with what was parsed so far when the parse fails
Fail_Partial(err) ==
  /\ Settle(Resolved(marshalFiles(files)))
  /\ failure' = IF failure = ErrNone THEN err ELSE failure

\* if err != nil { reject(prefix + err.Error()); return }
Fail(err) ==
  /\ Settle(Rejected(<< errPrefix(op), err >>))
  /\ failure' = IF failure = ErrNone THEN err ELSE failure

Return == Settle(Resolved(marshalFiles(files))) /\ UNCHANGED failure

\* the call goes on
Continue(next) ==
  /\ pc' = next
  /\ UNCHANGED <<aid, op, arg, resp, settles, last, readers, cancels, eager, lazy,
                  search>>
  /\ OutsideCall

\* ------------------------------------------------------------------------
\* The tee of indexTgzStream
\* ------------------------------------------------------------------------
\* a chunk writer that skips chunks of a single byte
jsChunkWriter_Write_DropsShort(snk, p) == IF RLen(p) > 1 THEN Append(snk, p) ELSE snk

\* jsChunkWriter.Write: a copy of p goes to onChunk
jsChunkWriter_Write(snk, p) == Append(snk, p)

\* a counter that is overwritten instead of advanced
countingWriter_Write_Assign(cnt, n) == n

\* countingWriter.Write: count += n
countingWriter_Write(cnt, n) == cnt + n

\* io.TeeReader.Read: what was read from gz is written to cw, in eager mode
\* the archive reader reads gz directly
Tee(r) ==
  /\ pos' = pos + r.n
  /\ IF op = "indexTgz" /\ r.n > 0
       THEN /\ sink' = jsChunkWriter_Write(sink, r.data)
            /\ count' = countingWriter_Write(count, r.n)
       ELSE UNCHANGED <<sink, count>>

\* ------------------------------------------------------------------------
\* Exported calls: entry
\* ------------------------------------------------------------------------
\* a size check that also turns away an input of exactly maxTotalSize bytes
tooLarge_Inclusive(length) == length >= maxTotalSize

\* length > maxTotalSize
tooLarge(length) == length > maxTotalSize

\* __wasm_parseTgz(Uint8Array of the given length)
wasm_parseTgz(length) ==
  /\ pc = "idle"
  /\ op' = "parseTgz" /\ arg' = length /\ resp' = NoResponse
  /\ Fresh
  /\ readers' = 0 /\ cancels' = 0 /\ failure' = ErrNone
  /\ UNCHANGED <<aid, eager, lazy, search>>
  /\ IF tooLarge(length)
       THEN /\ pc' = "idle"
            /\ settles' = 1
            /\ last' = Rejected(<< "Archive too large (>100MB)" >>)
       ELSE /\ pc' = "gzopen"
            /\ settles' = 0
            /\ last' = Unsettled("pending")

\* the part __wasm_fetchAndParseTgz and __wasm_indexTgz share: jsFetch, then
\* reject with "Fetch failed: ..." or go on to open the gzip stream
fetchCall(o, r) ==
  LET f == jsFetch(r)
  IN  /\ pc = "idle"
      /\ op' = o /\ arg' = 0 /\ resp' = r
      /\ Fresh
      /\ cancels' = 0
      /\ UNCHANGED <<aid, eager, lazy>>
      /\ IF f.err # << >>
           THEN /\ pc' = "idle"
                /\ readers' = IF f.body THEN 1 ELSE 0
                /\ settles' = 1
                /\ last' = Rejected(<< "Fetch failed: " >> \o f.err)
                /\ failure' = "fetch"
           ELSE /\ pc' = "gzopen"
                /\ readers' = IF f.body THEN 1 ELSE 0
                /\ settles' = 0
                /\ last' = Unsettled("pending")
                /\ failure' = ErrNone

wasm_fetchAndParseTgz(r) == fetchCall("fetchAndParseTgz", r) /\ UNCHANGED search

wasm_indexTgz(r) == fetchCall("indexTgz", r) /\ UNCHANGED search

\* Tarball size threshold for lazy loading (5 MB)
LAZY_THRESHOLD == 5 * 1024 * 1024

\* NaN, which is no size and compares false with every number
NaN == -2

\* what fetch(url, { method: "HEAD" }) gives: it throws, or a response whose
\* content-length header is cl (empty: no header)
HeadResponse(throws, cl) == [throws |-> throws, cl |-> cl]

Heads ==
  {  HeadResponse(TRUE, << >>),
     HeadResponse(FALSE, << >>),
     HeadResponse(FALSE, << "5", "2", "4", "2", "8", "7", "9" >>),
     HeadResponse(FALSE, << "5", "2", "4", "2", "8", "8", "0" >>),
     HeadResponse(FALSE, << "5", "2", "4", "2", "8", "8", "1" >>),
     HeadResponse(FALSE, << "x", "5" >>) }

\* parseInt(cl, 10) from character i on, n the value of the digits before it:
\* the digits up to the first character that is none
RECURSIVE parseIntFrom(_, _, _)
parseIntFrom(cl, i, n) ==
  IF i > Len(cl) THEN n
  ELSE IF isDigit(cl[i]) THEN parseIntFrom(cl, i + 1, n * 10 + digitValue(cl[i]))
  ELSE n

\* parseInt(cl, 10): NaN when cl does not start with a digit
parseInt(cl) == IF cl = << >> THEN NaN
                ELSE IF isDigit(cl[1]) THEN parseIntFrom(cl, 1, 0) ELSE NaN

\* getTarballSize: the content-length in bytes, or 0 if unavailable
getTarballSize(h) ==
  IF h.throws THEN 0
  ELSE IF h.cl = << >> THEN 0
  ELSE parseInt(h.cl)

\* const useLazy = tarballSize > LAZY_THRESHOLD
useLazy(tarballSize) == tarballSize # NaN /\ tarballSize > LAZY_THRESHOLD

\* the call handleSearch makes for a tarball of the given size
modeFor(tarballSize) == IF useLazy(tarballSize) THEN "indexTgz" ELSE "fetchAndParseTgz"

searchWith(tarballSize, r) ==
  /\ fetchCall(modeFor(tarballSize), r)
  /\ search' = [size |-> tarballSize, mode |-> modeFor(tarballSize)]

\* handleSearch / handleVersionChange, tgz path: the HEAD request gives the
\* size, the size the mode, and the call of that mode fetches the archive
handleSearch(h, r) == searchWith(getTarballSize(h), r)

\* gzip.NewReader at the head of parseTgzBytes, parseTgzStream, indexTgzStream
gzipNewReader ==
  /\ pc = "gzopen"
  /\ UNCHANGED <<pos, need, acc, nb, pad, trErr, hdr, entry, files, count, sink>>
  /\ IF Archives[aid].gzOK
       THEN Continue("next") /\ UNCHANGED failure
       ELSE Fail(ErrGzipHeader)

\* a tr.Next whose error the loop takes for the end of the archive
trNext_Lenient ==
  /\ pc = "next"
  /\ UNCHANGED <<pos, trErr, hdr, entry, files, count, sink>>
  /\ IF trErr # ErrNone
       THEN Return /\ UNCHANGED <<need, acc, nb, pad>>
       ELSE /\ nb' = 0 /\ pad' = 0 /\ acc' = << >>
            /\ UNCHANGED failure
            /\ IF nb + pad > 0
                 THEN need' = nb + pad /\ Continue("skip")
                 ELSE need' = blockSize /\ Continue("hdr")

\* ------------------------------------------------------------------------
\* archive/tar Reader as parseTar and indexTgzStream drive it
\* ------------------------------------------------------------------------
\* tr.Next(), first part: the sticky error, then what is left of the
\* previous member and its padding is to be discarded
trNext ==
  /\ pc = "next"
  /\ UNCHANGED <<pos, trErr, hdr, entry, files, count, sink>>
  /\ IF trErr # ErrNone
       THEN Fail(trErr) /\ UNCHANGED <<need, acc, nb, pad>>
       ELSE /\ nb' = 0 /\ pad' = 0 /\ acc' = << >>
            /\ UNCHANGED failure
            /\ IF nb + pad > 0
                 THEN need' = nb + pad /\ Continue("skip")
                 ELSE need' = blockSize /\ Continue("hdr")

\* tr.Next(), discarding: what one read r of the discard loop leads to
skipStep(r) ==
  /\ Tee(r)
  /\ UNCHANGED <<acc, nb, pad, hdr, entry, files>>
  /\ IF r.n = 0
       THEN /\ trErr' = shortRead(r.err)
            /\ UNCHANGED need
            /\ Fail(shortRead(r.err))
       ELSE /\ UNCHANGED <<trErr, failure>>
            /\ IF need = r.n
                 THEN need' = blockSize /\ Continue("hdr")
                 ELSE need' = need - r.n /\ Continue("skip")

\* tr.Next(), discarding: one read of the discard loop
skipRead ==
  /\ pc = "skip"
  /\ skipStep(gzRead(aid, pos, Min(copyBufSize, need)))

\* the members whose header block is blk
headerOf(a, blk) ==
  {k \in 1..Len(Archives[a].members) :
     Archives[a].members[k].hdrOK /\ blk = HeaderBlock(a, k)}

\* handleRegularFile: nb for the member of a header
dataLength(m) == IF isHeaderOnlyType(m.typeflag) THEN 0 ELSE m.size

\* the header of member k was read: nb and pad are set, Next returns it
headerAccept(k) ==
  /\ hdr' = k
  /\ nb' = dataLength(Archives[aid].members[k])
  /\ pad' = blockPadding(dataLength(Archives[aid].members[k]))
  /\ acc' = << >> /\ need' = 0
  /\ UNCHANGED <<trErr, failure>>
  /\ Continue("entry")

\* a full block blk was read: the end marker, a header or a malformed block
headerBlock(blk) ==
  IF blk = zeroBlock
    THEN /\ UNCHANGED <<nb, pad, hdr>>
         /\ IF pc = "hdr"
              THEN /\ acc' = << >> /\ need' = blockSize
                   /\ UNCHANGED <<trErr, failure>>
                   /\ Continue("hdr2")
              ELSE /\ UNCHANGED <<acc, need>>
                   /\ trErr' = ErrEOF /\ Return
  ELSE IF pc = "hdr2" \/ headerOf(aid, blk) = {}
    THEN /\ UNCHANGED <<need, acc, nb, pad, hdr>>
         /\ trErr' = ErrTarHeader /\ Fail(ErrTarHeader)
  ELSE headerAccept(CHOOSE k \in headerOf(aid, blk) : TRUE)

\* what one read r of the ReadFull of a header block leads to
headerStep(r) ==
  /\ Tee(r)
  /\ UNCHANGED <<entry, files>>
  /\ IF r.n = 0
       THEN /\ UNCHANGED <<need, acc, nb, pad, hdr>>
            /\ IF r.err = ErrEOF /\ acc = << >>
                 THEN trErr' = ErrEOF /\ Return
                 ELSE trErr' = shortRead(r.err) /\ Fail(shortRead(r.err))
     ELSE IF r.n < need
       THEN /\ acc' = RCat(acc, r.data) /\ need' = need - r.n
            /\ UNCHANGED <<nb, pad, hdr, trErr, failure>>
            /\ Continue(pc)
     ELSE headerBlock(RCat(acc, r.data))

\* tr.Next(), readHeader: one read of the ReadFull of a header block; a full
\* block is the end marker, a header (handleRegularFile sets nb and pad) or
\* malformed
headerRead ==
  /\ pc \in {"hdr", "hdr2"}
  /\ headerStep(gzRead(aid, pos, need))

\* ------------------------------------------------------------------------
\* The per-entry loop of parseTar (main.go:274-297) and of indexTgzStream
\* (main.go:365-397)
\* ------------------------------------------------------------------------
\* the threshold test with >= in place of >
overThreshold_Inclusive(size) == size >= maxFileContentSize

\* hdr.Size > maxFileContentSize
overThreshold(size) == size > maxFileContentSize

\* an offset taken from the reader position of the previous entry's start
entryOffset_Stale(cnt) == IF cnt >= blockSize THEN cnt - blockSize ELSE cnt

\* entry.Offset = cw.count
entryOffset(cnt) == cnt

\* the entry as created from the header of member m
newEntry(m) ==
  IF op = "indexTgz"
    THEN [path |-> m.name, size |-> m.size, isDir |-> m.typeflag = TypeDir,
          isBinary |-> FALSE, offset |-> 0]
    ELSE [path |-> m.name, size |-> m.size, isDir |-> m.typeflag = TypeDir,
          content |-> << >>, isBinary |-> FALSE]

\* the entry of a regular file: lazy mode records where its data starts
regEntry(e) == IF op = "indexTgz" THEN [e EXCEPT !.offset = entryOffset(count)] ELSE e

\* the loop body for member m with fresh entry e
entryFor(m, e) ==
  /\ UNCHANGED <<pos, nb, pad, trErr, hdr, count, sink, failure>>
  /\ acc' = << >>
  /\ IF ~(m.typeflag # TypeDir /\ m.typeflag = TypeReg)
       THEN /\ files' = Append(files, e)
            /\ entry' = e /\ need' = 0
            /\ Continue("next")
     ELSE IF overThreshold(m.size)
       THEN /\ entry' = [regEntry(e) EXCEPT !.isBinary = TRUE]
            /\ need' = 0
            /\ UNCHANGED files
            /\ Continue("drain")
     ELSE /\ entry' = regEntry(e)
          /\ need' = IF op = "indexTgz" /\ m.size > binaryCheckSize
                       THEN binaryCheckSize ELSE m.size
          /\ UNCHANGED files
          /\ Continue("data")

\* the entry is created from the header; a regular file starts its content
\* read (eager: all of it, lazy: the sniff prefix) or, over the threshold,
\* its drain; any other entry is appended as it is
entryStart ==
  /\ pc = "entry"
  /\ entryFor(Archives[aid].members[hdr], newEntry(Archives[aid].members[hdr]))

\* the buffer of the ReadFull is full: the sniff and what follows it
dataDone ==
  /\ UNCHANGED <<pos, count, sink, need, acc, nb, trErr, failure>>
  /\ IF op = "indexTgz"
       THEN /\ entry' = [entry EXCEPT !.isBinary = isBinaryContent(acc)]
            /\ UNCHANGED files
            /\ Continue("drain")
       ELSE /\ entry' = IF isBinaryContent(acc)
                          THEN [entry EXCEPT !.isBinary = TRUE]
                          ELSE [entry EXCEPT !.content = acc]
            /\ files' = Append(files, entry')
            /\ Continue("next")

\* what one read r of the ReadFull leads to
dataStep(r) ==
  /\ Tee(r)
  /\ UNCHANGED <<entry, files>>
  /\ IF r.n = 0
       THEN /\ trErr' = shortRead(r.err)
            /\ UNCHANGED <<need, acc, nb>>
            /\ Fail(shortRead(r.err))
       ELSE /\ acc' = RCat(acc, r.data)
            /\ need' = need - r.n
            /\ nb' = nb - r.n
            /\ UNCHANGED <<trErr, failure>>
            /\ Continue("data")

\* io.ReadFull(tr, buf) / io.ReadFull(tr, peek): one read, or, once the
\* buffer is full, the sniff and what follows it
dataRead ==
  /\ pc = "data"
  /\ UNCHANGED <<pad, hdr>>
  /\ IF need = 0 THEN dataDone ELSE dataStep(gzRead(aid, pos, Min(need, nb)))

\* a drain whose failure ends the pass with what was gathered so far
drainStep_Silent(r) ==
  /\ Tee(r)
  /\ IF r.n = 0
       THEN /\ trErr' = shortRead(r.err)
            /\ failure' = IF failure = ErrNone THEN shortRead(r.err) ELSE failure
            /\ UNCHANGED nb
            /\ files' = Append(files, entry)
            /\ Settle(Resolved(marshalFiles(files')))
       ELSE /\ nb' = nb - r.n
            /\ UNCHANGED <<trErr, failure, files>>
            /\ Continue("drain")

\* what one read r of the copy leads to
drainStep(r) ==
  /\ Tee(r)
  /\ IF r.n = 0
       THEN /\ trErr' = shortRead(r.err)
            /\ failure' = IF failure = ErrNone THEN shortRead(r.err) ELSE failure
            /\ UNCHANGED nb
            /\ files' = Append(files, entry)
            /\ Continue("next")
       ELSE /\ nb' = nb - r.n
            /\ UNCHANGED <<trErr, failure, files>>
            /\ Continue("drain")

\* io.Copy(io.Discard, tr): one read; the error of the copy is dropped by the
\* caller but stays in tr.err; when no data is left the entry is appended
drainRead ==
  /\ pc = "drain"
  /\ UNCHANGED <<pad, hdr, need, acc, entry>>
  /\ IF nb = 0
       THEN /\ UNCHANGED <<pos, count, sink, nb, trErr, failure>>
            /\ files' = Append(files, entry)
            /\ Continue("next")
       ELSE drainStep(gzRead(aid, pos, Min(copyBufSize, nb)))

\* ------------------------------------------------------------------------
\* __wasm_readFileFromTar
\* ------------------------------------------------------------------------
\* the sniff and string(data) of readFileContent
sniffed(data) ==
  IF isBinaryContent(data)
    THEN [content |-> << >>, isBinary |-> TRUE]
    ELSE [content |-> data, isBinary |-> FALSE]

\* readFileContent(blob, offset, size), bl the bytes of the Blob
readFileContent(bl, offset, size) == sniffed(BlobSlice(bl, offset, offset + size))

\* the Blob the host builds from the chunks it was handed
BlobOf(cs) == RConcat(cs)

ErrBlobRead == "NotReadableError"

\* the call for entry i of the index, on the Blob of the indexed archive;
\* readFails: slice.arrayBuffer() rejects
wasm_readFileFromTar(i, readFails) ==
  /\ pc = "idle"
  /\ lazy.have
  /\ i \in 1..Len(lazy.files)
  /\ IF readFails
       THEN /\ last' = Rejected(<< "Failed to read file: ", ErrBlobRead >>)
            /\ failure' = ErrBlobRead
       ELSE /\ last' = Resolved(marshalFiles(
                         << readFileContent(BlobOf(lazy.chunks),
                                            lazy.files[i].offset, lazy.files[i].size) >>))
            /\ failure' = ErrNone
  /\ op' = "readFileFromTar" /\ arg' = i /\ resp' = NoResponse
  /\ Fresh
  /\ settles' = 1 /\ readers' = 0 /\ cancels' = 0
  /\ UNCHANGED <<aid, pc, eager, lazy, search>>

\* ------------------------------------------------------------------------
\* Specification
\* ------------------------------------------------------------------------
MaxIndexArg == 6

Next ==
  \/ \E length \in InputLengths : wasm_parseTgz(length)
  \/ \E r \in Responses : wasm_fetchAndParseTgz(r)
  \/ \E r \in Responses : wasm_indexTgz(r)
  \/ \E h \in Heads, r \in Responses : handleSearch(h, r)
  \/ gzipNewReader
  \/ trNext
  \/ skipRead
  \/ headerRead
  \/ entryStart
  \/ dataRead
  \/ drainRead
  \/ \E i \in 1..MaxIndexArg, readFails \in BOOLEAN : wasm_readFileFromTar(i, readFails)

Spec == Init /\ [][Next]_vars

\* ------------------------------------------------------------------------
\* isBinaryContent on its own: inputs of up to MaxRuns runs
\* ------------------------------------------------------------------------
MaxRuns == 3

SniffBytes == {0, 65, 169, 195, 255}

SniffLens == {1, binaryCheckSize - 1, binaryCheckSize}

SniffInit ==
  /\ aid = 1
  /\ CallInit
  /\ SniffIdle
  /\ StoreInit
  /\ UiInit
  /\ StreamInit(<< >>)

\* the caller builds its buffer: one more run of n bytes b
sniffExtend(b, n) ==
  /\ sniffResult = "none"
  /\ Len(sniffData) < MaxRuns
  /\ IF sniffData = << >> THEN TRUE ELSE sniffData[Len(sniffData)][1] # b
  /\ sniffData' = RCat(sniffData, Run(b, n))
  /\ UNCHANGED sniffResult
  /\ OutsideSniff

\* isBinaryContent(sniffData) is called
sniffCall ==
  /\ sniffResult = "none"
  /\ sniffResult' = IF isBinaryContent(sniffData) THEN "binary" ELSE "text"
  /\ UNCHANGED sniffData
  /\ OutsideSniff

SniffNext ==
  \/ \E b \in SniffBytes, n \in SniffLens : sniffExtend(b, n)
  \/ sniffCall

SniffSpec == SniffInit /\ [][SniffNext]_vars

\* ------------------------------------------------------------------------
\* TarStore on its own: up to MaxStoreOps calls on one store
\* ------------------------------------------------------------------------
MaxStoreOps == 4

\* the chunks a caller hands to appendChunk: a header block with the data
\* block of a 10-byte text file, and 300 bytes of text
StoreChunks ==
  << << <<HdrSym(1), 500>>, <<0, 12>>, <<65, 10>>, <<0, 502>> >>,
     Run(66, 300) >>

IndexEntry(path, size, isDir, isBinary, offset) ==
  [path |-> path, size |-> size, isDir |-> isDir, isBinary |-> isBinary,
   offset |-> offset]

\* the indexes a caller hands to finalize; the second names a path twice
StoreIndexes ==
  << << IndexEntry("pkg/", 0, TRUE, FALSE, 0),
        IndexEntry("pkg/a.txt", 10, FALSE, FALSE, 512),
        IndexEntry("pkg/big.bin", 200, FALSE, TRUE, 1024) >>,
     << IndexEntry("pkg/a.txt", 4, FALSE, FALSE, 0),
        IndexEntry("pkg/tail.txt", 100, FALSE, FALSE, 1000),
        IndexEntry("pkg/a.txt", 6, FALSE, FALSE, 516) >> >>

StorePaths == {"pkg/", "pkg/a.txt", "pkg/big.bin", "pkg/tail.txt", "missing"}

\* Map.has
mapHas(m, path) == \E i \in 1..Len(m) : m[i].path = path

\* Map.get of a key the map has
mapGet(m, path) == m[CHOOSE i \in 1..Len(m) : m[i].path = path]

\* Map.set: a key the map has keeps its place and takes the new value
mapSet(m, e) ==
  IF mapHas(m, e.path)
    THEN [i \in 1..Len(m) |-> IF m[i].path = e.path THEN e ELSE m[i]]
    ELSE Append(m, e)

\* for (const entry of index) this.indexMap.set(entry.path, entry)
RECURSIVE mapFill(_, _, _)
mapFill(m, index, i) ==
  IF i > Len(index) THEN m ELSE mapFill(mapSet(m, index[i]), index, i + 1)

\* the call is recorded
storeCall(o, n, path) == storeLog' = Append(storeLog, [op |-> o, n |-> n, path |-> path])

\* appendChunk(chunk): a copy of the chunk is pushed
appendChunk(c) ==
  /\ Len(storeLog) < MaxStoreOps
  /\ chunks' = Append(chunks, StoreChunks[c])
  /\ UNCHANGED <<blob, indexMap, rangeReads>>
  /\ storeLast' = [NoStoreCall EXCEPT !.op = "appendChunk"]
  /\ storeCall("appendChunk", c, "")
  /\ OutsideStore

\* finalize(index): the Blob is built from the chunks held, the chunks are
\* let go, the map is cleared and filled
finalize(x) ==
  /\ Len(storeLog) < MaxStoreOps
  /\ blob' = [isNull |-> FALSE, bytes |-> RConcat(chunks)]
  /\ chunks' = << >>
  /\ indexMap' = mapFill(<< >>, StoreIndexes[x], 1)
  /\ UNCHANGED rangeReads
  /\ storeLast' = [NoStoreCall EXCEPT !.op = "finalize"]
  /\ storeCall("finalize", x, "")
  /\ OutsideStore

\* if (!this.blob)
notFinalized == blob.isNull

\* a readFile that does not look at the binary mark of the index
knownBinary_Ignored(e) == FALSE

\* if (entry.isBinary)
knownBinary(e) == e.isBinary

\* return { content, isBinary }
StoreResult(path, content, isBinary) ==
  [op |-> "readFile", path |-> path, st |-> "ok", msg |-> << >>,
   content |-> content, isBinary |-> isBinary]

\* a readFile that gives empty text where it should throw
StoreError_Swallowed(path, msg) == StoreResult(path, << >>, FALSE)

\* throw new Error(msg)
StoreError(path, msg) ==
  [op |-> "readFile", path |-> path, st |-> "error", msg |-> msg,
   content |-> << >>, isBinary |-> FALSE]

\* JSON.parse of the JSON text __wasm_readFileFromTar resolves with
parsedContent(path, r) == StoreResult(path, jsonString(r.content), r.isBinary)

\* readFile reaches the __wasm_readFileFromTar call for this path
needsRange(path) ==
  IF notFinalized THEN FALSE
  ELSE IF ~mapHas(indexMap, path) THEN FALSE
  ELSE ~mapGet(indexMap, path).isDir /\ ~knownBinary(mapGet(indexMap, path))

\* readFile from the entry on
readEntry(path, e, readFails) ==
  IF e.isDir THEN StoreResult(path, << >>, FALSE)
  ELSE IF knownBinary(e) THEN StoreResult(path, << >>, TRUE)
  ELSE IF readFails
    THEN StoreError(path, << "Failed to read file: ", ErrBlobRead >>)
  ELSE parsedContent(path, readFileContent(blob.bytes, e.offset, e.size))

\* what readFile(path) gives: its value, or the error it throws
readFileResult(path, readFails) ==
  IF notFinalized THEN StoreError(path, << "TarStore not finalized" >>)
  ELSE IF ~mapHas(indexMap, path)
    THEN StoreError(path, << "File not in index: ", path >>)
  ELSE readEntry(path, mapGet(indexMap, path), readFails)

\* readFile(path); readFails: the Blob read behind the call rejects
readFile(path, readFails) ==
  /\ Len(storeLog) < MaxStoreOps
  /\ readFails => needsRange(path)
  /\ storeLast' = readFileResult(path, readFails)
  /\ rangeReads' = IF needsRange(path) THEN rangeReads + 1 ELSE rangeReads
  /\ UNCHANGED <<chunks, blob, indexMap>>
  /\ storeCall("readFile", IF readFails THEN 1 ELSE 0, path)
  /\ OutsideStore

\* dispose(): the Blob, the chunks and the index are let go
dispose ==
  /\ Len(storeLog) < MaxStoreOps
  /\ blob' = NullBlob
  /\ chunks' = << >>
  /\ indexMap' = << >>
  /\ UNCHANGED rangeReads
  /\ storeLast' = [NoStoreCall EXCEPT !.op = "dispose"]
  /\ storeCall("dispose", 0, "")
  /\ OutsideStore

StoreSpecInit ==
  /\ aid = 1
  /\ CallInit
  /\ SniffIdle
  /\ StoreInit
  /\ UiInit
  /\ StreamInit(<< >>)

StoreNext ==
  \/ \E c \in 1..Len(StoreChunks) : appendChunk(c)
  \/ \E x \in 1..Len(StoreIndexes) : finalize(x)
  \/ \E path \in StorePaths, readFails \in BOOLEAN : readFile(path, readFails)
  \/ dispose

StoreSpec == StoreSpecInit /\ [][StoreNext]_vars

\* ------------------------------------------------------------------------
\* streamReader on its own: Read calls on a body that produces a given
\* sequence of chunks
\* ------------------------------------------------------------------------
MaxPulls == 5

\* what a reader.read() promise settles with
Chunk(data) == [kind |-> "chunk", data |-> data]

StreamDone == [kind |-> "done", data |-> << >>]

StreamError == [kind |-> "error", data |-> << >>]

ChunkA == << <<65, 5>>, <<66, 3>> >>

ChunkC == << <<67, 20>> >>

\* the bodies: what successive reader.read() calls give; the last event
\* repeats (a closed stream stays closed, an errored one errored)
Sources ==
  { << Chunk(ChunkA), Chunk(ChunkC), StreamDone >>,
    << Chunk(ChunkC), Chunk(<< >>), Chunk(ChunkA), StreamDone >>,
    << Chunk(ChunkA), StreamError >>,
    << StreamDone >> }

\* len(p) of the Read calls
BufSizes == {0, 1, 3, 8, 32}

\* a Read that leaves the bytes it returned in the leftover
advance_Stuck(buf, n) == buf

\* sr.buf = sr.buf[n:]
advance(buf, n) == RDrop(buf, n)

\* a Read that forgets what did not fit into p
stash_Dropped(buf, data, n) == << >>

\* if n < length { sr.buf = data[n:] }
stash(buf, data, n) == IF n < RLen(data) THEN RDrop(data, n) ELSE buf

\* a Read call returns n bytes and err
readReturn(lenp, leftover, doneBefore, pulledBefore, ev, data, err) ==
  /\ readLast' = [lenp |-> lenp, leftover |-> leftover, doneBefore |-> doneBefore,
                  pulledBefore |-> pulledBefore, event |-> ev,
                  n |-> RLen(data), data |-> data, err |-> err]
  /\ returned' = RCat(returned, data)
  /\ srPc' = "idle"

\* Read(p), len(p) = lenp, up to the return or to the wait for the promise
streamReader_Read(lenp) ==
  /\ srPc = "idle"
  /\ UNCHANGED <<source, delivered>>
  /\ srP' = lenp
  /\ IF RLen(srBuf) > 0
       THEN /\ readReturn(lenp, srBuf, srDone, pulled, NoEvent,
                          RTake(srBuf, Min(lenp, RLen(srBuf))), "nil")
            /\ srBuf' = advance(srBuf, Min(lenp, RLen(srBuf)))
            /\ UNCHANGED <<srDone, pulls, pulled>>
     ELSE IF srDone
       THEN /\ readReturn(lenp, srBuf, srDone, pulled, NoEvent, << >>, "EOF")
            /\ UNCHANGED <<srBuf, srDone, pulls, pulled>>
     ELSE /\ pulled < MaxPulls
          /\ pulls' = pulls + 1
          /\ pulled' = pulled + 1
          /\ srPc' = "await"
          /\ readLast' = [lenp |-> lenp, leftover |-> srBuf, doneBefore |-> srDone,
                          pulledBefore |-> pulled, event |-> NoEvent,
                          n |-> 0, data |-> << >>, err |-> "pending"]
          /\ UNCHANGED <<srBuf, srDone, returned>>
  /\ OutsideStream

\* a Read that does not record that the stream is done
readResume_ForgetsDone(ev) ==
  /\ pulls' = pulls - 1
  /\ UNCHANGED <<srP, pulled>>
  /\ IF ev.kind = "error"
       THEN /\ readReturn(srP, srBuf, srDone, readLast.pulledBefore, ev, << >>, "error")
            /\ UNCHANGED <<srBuf, srDone, source, delivered>>
     ELSE IF ev.kind = "done"
       THEN /\ readReturn(srP, srBuf, srDone, readLast.pulledBefore, ev, << >>, "EOF")
            /\ srDone' = FALSE
            /\ UNCHANGED <<srBuf, source, delivered>>
     ELSE /\ readReturn(srP, srBuf, srDone, readLast.pulledBefore, ev,
                        RTake(ev.data, Min(srP, RLen(ev.data))), "nil")
          /\ srBuf' = stash(srBuf, ev.data, Min(srP, RLen(ev.data)))
          /\ source' = Tail(source)
          /\ delivered' = RCat(delivered, ev.data)
          /\ UNCHANGED srDone
  /\ OutsideStream

\* the promise settled with ev: Read goes on from <-ch to its return
readResume(ev) ==
  /\ pulls' = pulls - 1
  /\ UNCHANGED <<srP, pulled>>
  /\ IF ev.kind = "error"
       THEN /\ readReturn(srP, srBuf, srDone, readLast.pulledBefore, ev, << >>, "error")
            /\ UNCHANGED <<srBuf, srDone, source, delivered>>
     ELSE IF ev.kind = "done"
       THEN /\ readReturn(srP, srBuf, srDone, readLast.pulledBefore, ev, << >>, "EOF")
            /\ srDone' = TRUE
            /\ UNCHANGED <<srBuf, source, delivered>>
     ELSE /\ readReturn(srP, srBuf, srDone, readLast.pulledBefore, ev,
                        RTake(ev.data, Min(srP, RLen(ev.data))), "nil")
          /\ srBuf' = stash(srBuf, ev.data, Min(srP, RLen(ev.data)))
          /\ source' = Tail(source)
          /\ delivered' = RCat(delivered, ev.data)
          /\ UNCHANGED srDone
  /\ OutsideStream

\* the reader.read() promise of the waiting Read settles
streamReader_ReadSettled ==
  /\ srPc = "await"
  /\ pulls > 0
  /\ readResume(source[1])

StreamSpecInit ==
  /\ aid = 1
  /\ CallInit
  /\ SniffIdle
  /\ StoreInit
  /\ UiInit
  /\ \E src \in Sources : StreamInit(src)

StreamNext ==
  \/ \E lenp \in BufSizes : streamReader_Read(lenp)
  \/ streamReader_ReadSettled

StreamSpec == StreamSpecInit /\ [][StreamNext]_vars

\* ------------------------------------------------------------------------
\* HighlighterSpec: the useHighlighter hook under changing files
\* ------------------------------------------------------------------------
MaxRequests == 3

\* a file as the hook sees it: path, content, isBinary
HlFile(path, content, isBinary) ==
  [path |-> path, from |-> 0, lazy |-> FALSE, content |-> content, isBinary |-> isBinary]

\* the files passed to the hook: null, two text files, a binary file, a file
\* with empty content
HlFiles ==
  { NoFile,
    HlFile("a.js", <<"a1", "a2">>, FALSE),
    HlFile("b.js", <<"b1">>, FALSE),
    HlFile("c.png", << >>, TRUE),
    HlFile("d.txt", << >>, FALSE) }

\* highlightedLines = null
NoLines == [path |-> "", lines |-> << >>]

\* highlight(content, path): one token line per line of the content, in the
\* language detected from the path
highlight(content, path) ==
  [path |-> path, lines |-> [i \in 1..Len(content) |-> <<"tok", content[i]>>]]

\* the effect's early return: !file || file.isBinary || !file.content
nothingToHighlight(f) == f = NoFile \/ f.isBinary \/ f.content = << >>

\* the hook is rendered with another file and the effect runs
useHighlighter(f) ==
  /\ f # hlFile
  /\ hlFile' = f
  /\ IF nothingToHighlight(f)
       THEN /\ highlightedLines' = NoLines
            /\ highlighting' = FALSE
            /\ UNCHANGED <<requestIdRef, hlPending>>
       ELSE /\ requestIdRef < MaxRequests
            /\ requestIdRef' = requestIdRef + 1
            /\ highlighting' = TRUE
            /\ hlPending' = Append(hlPending,
                 [requestId |-> requestIdRef + 1, done |-> FALSE,
                  lines |-> highlight(f.content, f.path)])
            /\ UNCHANGED highlightedLines
  /\ OutsideHighlighter

\* the promise of the k-th highlight() resolves and its then-callback runs
highlightResolved(k) ==
  /\ k \in 1..Len(hlPending)
  /\ ~hlPending[k].done
  /\ hlPending' = [hlPending EXCEPT ![k].done = TRUE]
  /\ IF hlPending[k].requestId = requestIdRef
       THEN highlightedLines' = hlPending[k].lines /\ highlighting' = FALSE
       ELSE UNCHANGED <<highlightedLines, highlighting>>
  /\ UNCHANGED <<hlFile, requestIdRef>>
  /\ OutsideHighlighter

HighlighterSpecInit ==
  /\ aid = 1 /\ CallInit /\ SniffIdle /\ StoreInit /\ StreamInit(<< >>)
  /\ UiInit

HighlighterNext ==
  \/ \E f \in HlFiles : useHighlighter(f)
  \/ \E k \in 1..MaxRequests : highlightResolved(k)

HighlighterSpec == HighlighterSpecInit /\ [][HighlighterNext]_vars

\* ------------------------------------------------------------------------
\* CorsSpec: corsFetch calls, which may overlap, over the proxy list
\* ------------------------------------------------------------------------
MaxCalls == 3

BUILTIN_CORS_PROXIES == <<"builtin">>

\* getProxyList(): the custom proxy (if set) first, then the built-in ones
getProxyList == IF corsCustom THEN <<"custom">> \o BUILTIN_CORS_PROXIES
                              ELSE BUILTIN_CORS_PROXIES

\* what a fetch() does: an ok response, a response that is not ok, a throw
FetchOutcomes == {"ok", "notok", "throws"}

\* const proxyIndex = (activeProxyIndex + i) % proxies.length
proxyIndexAt(i, length) == (activeProxyIndex + i) % length

\* a corsFetch call awaiting fetch(proxiedUrl) for loop index i
corsAttempt(c, i) ==
  [c EXCEPT !.pc = "fetch", !.i = i,
            !.proxyIndex = proxyIndexAt(i, c.length),
            !.tried = Append(c.tried, proxyIndexAt(i, c.length))]

\* corsFetch(url, needsCors) is called and runs up to its first await
corsFetch(needsCors) ==
  /\ Len(corsCalls) < MaxCalls
  /\ corsCalls' = Append(corsCalls,
       IF ~needsCors
         THEN [needsCors |-> FALSE, pc |-> "direct", length |-> 0, i |-> 0,
               proxyIndex |-> -1, tried |-> << >>, start |-> activeProxyIndex,
               direct |-> 1, res |-> "none"]
         ELSE corsAttempt([needsCors |-> TRUE, pc |-> "fetch",
                           length |-> Len(getProxyList), i |-> 0,
                           proxyIndex |-> -1, tried |-> << >>,
                           start |-> activeProxyIndex % Len(getProxyList),
                           direct |-> 0, res |-> "none"], 0))
  /\ UNCHANGED <<activeProxyIndex, corsCustom>>
  /\ OutsideCors

\* the direct fetch of call k settles: corsFetch returned fetch(url) itself
directSettled(k, outcome) ==
  /\ k \in 1..Len(corsCalls)
  /\ corsCalls[k].pc = "direct"
  /\ corsCalls' = [corsCalls EXCEPT ![k].pc = IF outcome = "throws" THEN "thrown" ELSE "returned",
                                    ![k].res = outcome]
  /\ UNCHANGED <<activeProxyIndex, corsCustom>>
  /\ OutsideCors

\* the loop of call c after an attempt that was not ok: the next proxy, or
\* the throw after the loop
corsNext(c) ==
  IF c.i + 1 < c.length THEN corsAttempt(c, c.i + 1)
                        ELSE [c EXCEPT !.pc = "thrown", !.res = "All CORS proxies failed"]

\* the proxied fetch of call k settles and the call runs up to its next await
fetchSettled(k, outcome) ==
  /\ k \in 1..Len(corsCalls)
  /\ corsCalls[k].pc = "fetch"
  /\ IF outcome = "ok"
       THEN /\ activeProxyIndex' = corsCalls[k].proxyIndex
            /\ corsCalls' = [corsCalls EXCEPT ![k].pc = "returned", ![k].res = "ok"]
       ELSE /\ corsCalls' = [corsCalls EXCEPT ![k] = corsNext(corsCalls[k])]
            /\ UNCHANGED activeProxyIndex
  /\ UNCHANGED corsCustom
  /\ OutsideCors

CorsSpecInit ==
  /\ aid = 1 /\ CallInit /\ SniffIdle /\ StoreInit /\ StreamInit(<< >>)
  /\ AppInit /\ HighlighterInit
  /\ activeProxyIndex = 0 /\ corsCustom \in BOOLEAN /\ corsCalls = << >>

CorsNext ==
  \/ \E needsCors \in BOOLEAN : corsFetch(needsCors)
  \/ \E k \in 1..MaxCalls, outcome \in FetchOutcomes : directSettled(k, outcome)
  \/ \E k \in 1..MaxCalls, outcome \in FetchOutcomes : fetchSettled(k, outcome)

CorsSpec == CorsSpecInit /\ [][CorsNext]_vars

\* ------------------------------------------------------------------------
\* AppSpec: the App component -- searches, lazy stores and file selection,
\* each handler cut at its awaits
\* ------------------------------------------------------------------------
MaxSearches == 2
MaxSelects == 2
MaxStoreChunks == 1

\* the packages searched for; both archives hold the same two paths
AppPackages == {"p", "q"}
MetaPath == "package/package.json"
AppPaths == <<MetaPath, "package/index.js">>

\* the text of a file of a package's archive
Text(name, path) == <<name, path>>

\* a ParsedFile; from is the handleSearch whose list it belongs to
AppFile(path, from, isLazy, content) ==
  [path |-> path, from |-> from, lazy |-> isLazy, content |-> content, isBinary |-> FALSE]

\* new TarStore(), made by the indexTgz call of search s for package name
NewTarStore(s, name) ==
  [owner |-> s, name |-> name, chunks |-> 0, appended |-> 0, blob |-> FALSE,
   finalized |-> FALSE, rejected |-> FALSE, disposed |-> FALSE,
   wasCurrent |-> FALSE, served |-> 0]

\* TarStore.appendChunk, finalize, dispose on a store of the App
appended(st) == [st EXCEPT !.chunks = @ + 1, !.appended = @ + 1]
finalized(st) == [st EXCEPT !.blob = TRUE, !.chunks = 0, !.finalized = TRUE]
disposed(st) == [st EXCEPT !.blob = FALSE, !.chunks = 0, !.disposed = TRUE]

\* if (tarStoreRef.current) { tarStoreRef.current.dispose(); ... }
disposeCurrent ==
  IF tarStoreRef = 0 THEN appStores
                     ELSE [appStores EXCEPT ![tarStoreRef] = disposed(@)]

\* store.toFiles(index.files): every entry lazy, without content
toFiles(s) == [i \in 1..Len(AppPaths) |-> AppFile(AppPaths[i], s, TRUE, << >>)]

\* lazyFiles after the metadata file was read from store st
lazyFiles(s, st) ==
  [i \in 1..Len(AppPaths) |->
     IF AppPaths[i] = MetaPath
       THEN AppFile(MetaPath, s, FALSE, Text(st.name, MetaPath))
       ELSE AppFile(AppPaths[i], s, TRUE, << >>)]

\* result.files of fetchAndParseTgz: every file with its content
eagerFiles(s, name) ==
  [i \in 1..Len(AppPaths) |-> AppFile(AppPaths[i], s, FALSE, Text(name, AppPaths[i]))]

\* a handleSearch that is still awaiting
awaiting(srch) == srch.pc \notin {"done", "failed"}

\* the parts of the App state a continuation of handleSearch leaves alone
searchFrame == UNCHANGED <<selectedFile, selects, latest, storeReads>>

\* handleSearch(registry, name) is called and runs up to its first await
startSearch(name) ==
  /\ Len(searches) < MaxSearches
  /\ appStores' = disposeCurrent
  /\ tarStoreRef' = 0
  /\ appStatus' = "loading"
  /\ appFiles' = << >>
  /\ selectedFile' = NoFile
  /\ packageInfo' = 0
  /\ searches' = Append(searches,
       [name |-> name, pc |-> "info", store |-> 0,
        overlap |-> \E t \in 1..Len(searches) : awaiting(searches[t])])
  /\ latest' = Len(searches) + 1
  /\ loaded' = {}
  /\ UNCHANGED <<selects, storeReads>>
  /\ OutsideApp

\* the catch block of handleSearch s
searchFailed(s) ==
  /\ appStatus' = "error"
  /\ searches' = [searches EXCEPT ![s].pc = "failed"]
  /\ UNCHANGED <<appFiles, packageInfo, loaded>>

\* setFiles, setPackageInfo, setStatus("success") at the end of handleSearch s
searchSucceeded(s, fs) ==
  /\ appFiles' = fs
  /\ packageInfo' = s
  /\ appStatus' = "success"
  /\ loaded' = {}
  /\ searches' = [searches EXCEPT ![s].pc = "done"]

\* registry.fetchPackageInfo settles; on success the HEAD request is sent
searchPackageInfo(s, ok) ==
  /\ s \in 1..Len(searches)
  /\ searches[s].pc = "info"
  /\ IF ok THEN /\ searches' = [searches EXCEPT ![s].pc = "size"]
                /\ UNCHANGED <<appStatus, appFiles, packageInfo, loaded>>
           ELSE searchFailed(s)
  /\ UNCHANGED <<tarStoreRef, appStores>>
  /\ searchFrame
  /\ OutsideApp

\* getTarballSize settles; the lazy path calls indexTgz, which makes a new
\* TarStore, the eager path calls fetchAndParseTgz
searchTarballSize(s, h) ==
  /\ s \in 1..Len(searches)
  /\ searches[s].pc = "size"
  /\ IF useLazy(getTarballSize(h))
       THEN /\ appStores' = Append(appStores, NewTarStore(s, searches[s].name))
            /\ searches' = [searches EXCEPT ![s].pc = "index",
                                            ![s].store = Len(appStores) + 1]
       ELSE /\ searches' = [searches EXCEPT ![s].pc = "eager"]
            /\ UNCHANGED appStores
  /\ UNCHANGED <<tarStoreRef, appStatus, appFiles, packageInfo, loaded>>
  /\ searchFrame
  /\ OutsideApp

\* __wasm_indexTgz hands a chunk to store.appendChunk
indexChunk(s) ==
  /\ s \in 1..Len(searches)
  /\ searches[s].pc = "index"
  /\ appStores[searches[s].store].appended < MaxStoreChunks
  /\ appStores' = [appStores EXCEPT ![searches[s].store] = appended(@)]
  /\ UNCHANGED <<tarStoreRef, appStatus, appFiles, packageInfo, loaded, searches>>
  /\ searchFrame
  /\ OutsideApp

\* the store of useWasm.indexTgz once the promise of __wasm_indexTgz is
\* settled: finalized when it resolved, left alone when it rejected
indexTgzStore_Trusting(st, ok) == [finalized(st) EXCEPT !.rejected = ~ok]

indexTgzStore(st, ok) ==
  IF ok THEN finalized(st) ELSE [st EXCEPT !.rejected = TRUE]

\* indexTgz settles; on success the store becomes the current one and the
\* metadata file is read from it
searchIndexed(s, ok) ==
  /\ s \in 1..Len(searches)
  /\ searches[s].pc = "index"
  /\ IF ok
       THEN /\ appStores' = [appStores EXCEPT ![searches[s].store] =
                               [indexTgzStore(@, ok) EXCEPT !.wasCurrent = TRUE]]
            /\ tarStoreRef' = searches[s].store
            /\ searches' = [searches EXCEPT ![s].pc = "meta"]
            /\ UNCHANGED <<appStatus, appFiles, packageInfo, loaded>>
       ELSE /\ appStores' = [appStores EXCEPT ![searches[s].store] = indexTgzStore(@, ok)]
            /\ UNCHANGED tarStoreRef
            /\ searchFailed(s)
  /\ searchFrame
  /\ OutsideApp

\* store.readFile(metaFile.path) settles; the Blob was taken when the read
\* was started, so a dispose in between does not stop it
searchMetaRead(s, ok) ==
  /\ s \in 1..Len(searches)
  /\ searches[s].pc = "meta"
  /\ IF ok
       THEN /\ appStores' = [appStores EXCEPT ![searches[s].store].served = @ + 1]
            /\ searchSucceeded(s, lazyFiles(s, appStores[searches[s].store]))
       ELSE /\ UNCHANGED appStores
            /\ searchFailed(s)
  /\ UNCHANGED tarStoreRef
  /\ searchFrame
  /\ OutsideApp

\* fetchAndParseTgz settles
searchParsed(s, ok) ==
  /\ s \in 1..Len(searches)
  /\ searches[s].pc = "eager"
  /\ IF ok THEN searchSucceeded(s, eagerFiles(s, searches[s].name))
           ELSE searchFailed(s)
  /\ UNCHANGED <<tarStoreRef, appStores>>
  /\ searchFrame
  /\ OutsideApp

\* resetToIdle()
resetToIdle ==
  /\ appStores' = disposeCurrent
  /\ tarStoreRef' = 0
  /\ appStatus' = "idle"
  /\ appFiles' = << >>
  /\ selectedFile' = NoFile
  /\ packageInfo' = 0
  /\ latest' = 0
  /\ loaded' = {}
  /\ UNCHANGED <<searches, selects, storeReads>>
  /\ OutsideApp

\* handleSelectFile(file) for the i-th file of the tree: a lazy file is read
\* from the current store, any other file is shown as it is
handleSelectFile(i) ==
  /\ appStatus = "success"
  /\ i \in 1..Len(appFiles)
  /\ IF appFiles[i].lazy /\ tarStoreRef # 0
       THEN /\ Len(selects) < MaxSelects
            /\ selectedFile' = [appFiles[i] EXCEPT !.content = << >>]
            /\ selects' = Append(selects,
                 [path |-> appFiles[i].path, from |-> appFiles[i].from,
                  store |-> tarStoreRef, pc |-> "read",
                  hasBlob |-> appStores[tarStoreRef].blob])
            /\ storeReads' = storeReads + 1
       ELSE /\ selectedFile' = appFiles[i]
            /\ UNCHANGED <<selects, storeReads>>
  /\ UNCHANGED <<tarStoreRef, appStores, appStatus, appFiles, packageInfo, searches,
                 latest, loaded>>
  /\ OutsideApp

\* loadedFile = { ...file, content, isBinary, lazy: false }
loadedFile(sel) ==
  AppFile(sel.path, sel.from, FALSE, Text(appStores[sel.store].name, sel.path))

\* setFiles(prev => prev.map(f => f.path === file.path ? loadedFile : f))
cacheLoaded_Dropped(fs, lf) == fs

cacheLoaded(fs, lf) == [i \in 1..Len(fs) |-> IF fs[i].path = lf.path THEN lf ELSE fs[i]]

\* the file shown when the read failed
errorFile(sel) == AppFile(sel.path, sel.from, FALSE, <<"Error loading file">>)

\* the readFile of the k-th reading handleSelectFile settles
selectSettled(k, ok) ==
  /\ k \in 1..Len(selects)
  /\ selects[k].pc = "read"
  /\ ok => selects[k].hasBlob
  /\ IF ok
       THEN /\ selectedFile' = loadedFile(selects[k])
            /\ appFiles' = cacheLoaded(appFiles, loadedFile(selects[k]))
            /\ appStores' = [appStores EXCEPT ![selects[k].store].served = @ + 1]
            /\ loaded' = IF \E i \in 1..Len(appFiles) :
                              /\ appFiles[i].path = selects[k].path
                              /\ appFiles[i].from = selects[k].from
                           THEN loaded \cup {selects[k].path}
                           ELSE loaded
            /\ selects' = [selects EXCEPT ![k].pc = "done"]
       ELSE /\ selectedFile' = errorFile(selects[k])
            /\ selects' = [selects EXCEPT ![k].pc = "failed"]
            /\ UNCHANGED <<appFiles, appStores, loaded>>
  /\ UNCHANGED <<tarStoreRef, appStatus, packageInfo, searches, latest, storeReads>>
  /\ OutsideApp

AppSpecInit ==
  /\ aid = 1 /\ CallInit /\ SniffIdle /\ StoreInit /\ StreamInit(<< >>)
  /\ UiInit

AppNext ==
  \/ \E name \in AppPackages : startSearch(name)
  \/ \E s \in 1..MaxSearches, ok \in BOOLEAN : searchPackageInfo(s, ok)
  \/ \E s \in 1..MaxSearches, h \in Heads : searchTarballSize(s, h)
  \/ \E s \in 1..MaxSearches : indexChunk(s)
  \/ \E s \in 1..MaxSearches, ok \in BOOLEAN : searchIndexed(s, ok)
  \/ \E s \in 1..MaxSearches, ok \in BOOLEAN : searchMetaRead(s, ok)
  \/ \E s \in 1..MaxSearches, ok \in BOOLEAN : searchParsed(s, ok)
  \/ resetToIdle
  \/ \E i \in 1..Len(AppPaths) : handleSelectFile(i)
  \/ \E k \in 1..MaxSelects, ok \in BOOLEAN : selectSettled(k, ok)

AppSpec == AppSpecInit /\ [][AppNext]_vars

\* ------------------------------------------------------------------------
\* LiveSpec: an ingestion call, or the streamReader over a body, under
\* fairness -- a started pass keeps running, and every reader.read() promise
\* is settled in the end
\* ------------------------------------------------------------------------
\* the steps of a started parseTgzStream or indexTgzStream pass
PassStep ==
  \/ gzipNewReader
  \/ trNext
  \/ skipRead
  \/ headerRead
  \/ entryStart
  \/ dataRead
  \/ drainRead

\* either the streaming calls on an archive, or the Read calls on a body
LiveInit == Init \/ StreamSpecInit

LiveNext ==
  \/ source = << >> /\ \E r \in Responses : wasm_fetchAndParseTgz(r)
  \/ source = << >> /\ \E r \in Responses : wasm_indexTgz(r)
  \/ source = << >> /\ PassStep
  \/ source # << >> /\ StreamNext

\* a started pass has a next step until it has settled the promise
PassEnabled == pc # "idle"

\* weak fairness of the pass, WF_vars(PassStep), with the enabledness of a
\* pass step written out; weak fairness of the settling of a pull
LiveSpec ==
  /\ LiveInit /\ [][LiveNext]_vars
  /\ ( []<>(~PassEnabled) \/ []<><<PassStep>>_vars )
  /\ WF_vars(streamReader_ReadSettled)

\* ------------------------------------------------------------------------
\* Properties
\* ------------------------------------------------------------------------
Members(a) == Archives[a].members

isRegular(a, i) == Members(a)[i].typeflag = TypeReg

\* position of the first data byte of member k in the tar stream of a
DataStart(a, k) == RLen(MembersBytes(a, k - 1)) + blockSize

\* the binary rule stated byte by byte over the first 512 bytes: some byte is
\* NUL, or some byte is neither a plain byte, nor a lead byte followed inside
\* the prefix by a continuation byte, nor a continuation byte after a lead byte
RuleBinary(d) ==
  LET n == Min(RLen(d), 512)
  IN  \E i \in 0..(n - 1) :
        LET b == RAt(d, i)
            c == ByteClass(b)
        IN  \/ b = 0
            \/ ~ \/ c = "ascii"
                 \/ c = "lead2" /\ i + 1 < n /\ ByteClass(RAt(d, i + 1)) = "cont"
                 \/ c = "cont" /\ i > 0 /\ ByteClass(RAt(d, i - 1)) = "lead2"

\* C1: round trip between modes -- reading (offset, size) of an index entry
\* that is neither a directory nor binary from the Blob of the forwarded
\* chunks yields the text eager extraction gives that entry, and isBinary=false
C1_RoundTrip ==
  ( /\ op = "readFileFromTar" /\ last.st = "resolved"
    /\ eager.have /\ lazy.have
    /\ ~lazy.files[arg].isDir /\ ~lazy.files[arg].isBinary )
  => last.value[1] = [content |-> eager.files[arg].content, isBinary |-> FALSE]

\* C2: tee completeness -- at every point of an indexTgz run the chunks
\* delivered so far, concatenated in delivery order, are exactly the bytes the
\* archive reader has read so far, and the counter equals their number
C2_TeeComplete ==
  op = "indexTgz" =>
    /\ RConcat(sink) = RTake(TarBytes(aid), pos)
    /\ count = pos
    /\ count = RLen(RConcat(sink))

C2_Witness ==
  op = "indexTgz" /\ pc = "drain" /\ Len(sink) >= 3 /\ \E i \in 1..Len(sink) : RLen(sink[i]) = 1

\* C3: the offset of a regular-file entry is the counter value once its header
\* is consumed and before any of its data is read, which is the position of
\* its first data byte in the forwarded stream
C3_OffsetAtDataStart ==
  /\ ( op = "indexTgz" /\ pc \in {"data", "drain"} ) =>
       /\ entry.offset = count - (Members(aid)[hdr].size - nb)
       /\ entry.offset = DataStart(aid, hdr)
  /\ op = "indexTgz" =>
       \A i \in 1..Len(files) :
         isRegular(aid, i) => files[i].offset = DataStart(aid, i)
  /\ lazy.have =>
       LET bl == BlobOf(lazy.chunks)
       IN  \A i \in 1..Len(lazy.files) :
             isRegular(aid, i) =>
               BlobSlice(bl, lazy.files[i].offset,
                         lazy.files[i].offset + lazy.files[i].size)
                 = Members(aid)[i].data

C3_Witness ==
  /\ op = "indexTgz" /\ pc = "drain" /\ hdr > 1 /\ nb < Members(aid)[hdr].size
  /\ entry.offset > blockSize

\* C4 as claimed: for any two entries i < j of the index,
\* offset(i) + size(i) <= offset(j)
C4_MonotoneAllEntries ==
  op = "indexTgz" =>
    \A i, j \in 1..Len(files) :
      i < j => files[i].offset + files[i].size <= files[j].offset

\* C4, amended: for any two regular-file entries i < j of the index,
\* offset(i) + size(i) <= offset(j)
C4_MonotoneRegular ==
  op = "indexTgz" =>
    \A i, j \in 1..Len(files) :
      ( i < j /\ isRegular(aid, i) /\ isRegular(aid, j) )
        => files[i].offset + files[i].size <= files[j].offset

C4_Witness ==
  /\ op = "indexTgz" /\ last.st = "resolved"
  /\ \E i, j, k \in 1..Len(files) :
       /\ i < j /\ j < k
       /\ isRegular(aid, i) /\ isRegular(aid, j) /\ files[k].isDir
       /\ files[j].offset > files[i].offset + files[i].size

\* C5: the per-entry threshold is the same in both modes -- a regular file of
\* at most 524288 bytes is content-read (eager: content unless sniffed binary,
\* lazy: isBinary from the sniff), one of 524289 bytes or more is binary with
\* empty content
C5_Threshold ==
  \A i \in 1..Len(Members(aid)) :
    isRegular(aid, i) =>
      LET m == Members(aid)[i]
      IN  /\ eager.have =>
               /\ m.size <= 524288 =>
                    /\ eager.files[i].isBinary = RuleBinary(m.data)
                    /\ eager.files[i].content =
                         IF RuleBinary(m.data) THEN << >> ELSE jsonString(m.data)
               /\ m.size >= 524289 =>
                    eager.files[i].isBinary /\ eager.files[i].content = << >>
          /\ lazy.have =>
               /\ m.size <= 524288 => lazy.files[i].isBinary = RuleBinary(m.data)
               /\ m.size >= 524289 => lazy.files[i].isBinary
          /\ ( eager.have /\ lazy.have ) =>
               eager.files[i].isBinary = lazy.files[i].isBinary

C5_Witness ==
  /\ eager.have /\ lazy.have
  /\ \E i, j, k \in 1..Len(Members(aid)) :
       /\ Members(aid)[i].size = 524288 /\ eager.files[i].content = TextA(524288)
       /\ ~lazy.files[i].isBinary
       /\ Members(aid)[j].size = 524288 /\ eager.files[j].isBinary
       /\ Members(aid)[k].size = 524289 /\ eager.files[k].isBinary
       /\ lazy.files[k].isBinary

\* C6: isBinaryContent(data) is true exactly when one of the first
\* min(len(data), 512) bytes is NUL or that prefix is not valid UTF-8; later
\* bytes do not matter and the empty input is not binary
C6_BinaryRule ==
  sniffResult # "none" =>
    /\ (sniffResult = "binary") = RuleBinary(sniffData)
    /\ (sniffResult = "binary") = RuleBinary(RTake(sniffData, 512))
    /\ sniffData = << >> => sniffResult = "text"

C6_Witness ==
  /\ sniffResult = "text"
  /\ RLen(sniffData) > 512
  /\ \E i \in 1..Len(sniffData) : sniffData[i][1] \in {0, 255}

\* C7: parseTgz rejects an input longer than maxTotalSize (100 MiB) before
\* anything is decompressed or parsed and returns no entry; an input of
\* exactly maxTotalSize bytes passes this check
C7_SizeGuard ==
  op = "parseTgz" =>
    /\ arg > 104857600 =>
         /\ pc = "idle" /\ settles = 1
         /\ last = Rejected(<< "Archive too large (>100MB)" >>)
         /\ pos = 0 /\ hdr = 0 /\ files = << >>
    /\ arg <= 104857600 => last.msg # << "Archive too large (>100MB)" >>

C7_Witness ==
  op = "parseTgz" /\ arg = 104857601 /\ last.st = "rejected" /\ ~eager.have

\* C8: a response that declares a content length above maxTotalSize makes
\* fetchAndParseTgz and indexTgz fail before any entry is produced and before
\* any chunk is forwarded
C8_SizeCapOnFetch ==
  ( op \in FetchOps /\ resp.ok /\ parseContentLength(resp.cl, 0) > maxTotalSize )
  => /\ files = << >> /\ sink = << >>
     /\ last.st # "resolved"

\* C9: a non-success response makes fetchAndParseTgz and indexTgz reject with
\* the HTTP status and reason text; no stream reader is created, no entry is
\* parsed, no chunk is forwarded
C9_FetchFailure ==
  ( op \in FetchOps /\ ~resp.throws /\ ~resp.ok ) =>
    /\ pc = "idle" /\ last.st = "rejected" /\ settles = 1
    /\ resp.status = 404 =>
         last.msg = << "Fetch failed: ", "HTTP ", "4", "0", "4", " ", "Not Found" >>
    /\ resp.status = 500 =>
         last.msg = << "Fetch failed: ", "HTTP ", "5", "0", "0", " ",
                       "Internal Server Error" >>
    /\ readers = 0 /\ pos = 0 /\ hdr = 0 /\ files = << >> /\ sink = << >>

C9_Witness ==
  op = "indexTgz" /\ resp.status = 404 /\ last.st = "rejected" /\ lazy.have

\* the members whose header block the decompressed stream holds in full
MembersInStream(a) ==
  Cardinality({k \in 1..Len(Members(a)) :
                 RLen(MembersBytes(a, k - 1)) + blockSize <= RLen(TarBytes(a))})

finalizedBefore(n) ==
  \E i \in 1..(n - 1) :
    /\ storeLog[i].op = "finalize"
    /\ \A j \in (i + 1)..(n - 1) : storeLog[j].op # "dispose"

\* the last dispose in the log, 0 when there is none
lastDispose ==
  IF \E i \in 1..Len(storeLog) : storeLog[i].op = "dispose"
    THEN CHOOSE i \in 1..Len(storeLog) :
           /\ storeLog[i].op = "dispose"
           /\ \A j \in (i + 1)..Len(storeLog) : storeLog[j].op # "dispose"
    ELSE 0

\* the first finalize after the last dispose, 0 when there is none
firstFinalize ==
  IF \E i \in (lastDispose + 1)..Len(storeLog) : storeLog[i].op = "finalize"
    THEN CHOOSE i \in (lastDispose + 1)..Len(storeLog) :
           /\ storeLog[i].op = "finalize"
           /\ \A j \in (lastDispose + 1)..(i - 1) : storeLog[j].op # "finalize"
    ELSE 0

\* the chunks appended by calls i..j of the log, concatenated in call order
RECURSIVE appendedIn(_, _)
appendedIn(i, j) ==
  IF i > j THEN << >>
  ELSE IF storeLog[i].op = "appendChunk"
    THEN RCat(StoreChunks[storeLog[i].n], appendedIn(i + 1, j))
  ELSE appendedIn(i + 1, j)

\* C11 as claimed: from its finalize until a dispose, the bytes of the store
\* are the chunks appended before that finalize, concatenated in append
\* order, and its index is the one that finalize was given, whatever
\* appendChunk and finalize calls follow
C11_ReadOnlyOnceFinalized ==
  firstFinalize # 0 =>
    /\ ~blob.isNull
    /\ blob.bytes = appendedIn(lastDispose + 1, firstFinalize - 1)
    /\ indexMap = mapFill(<< >>, StoreIndexes[storeLog[firstFinalize].n], 1)

\* C12 as claimed: an appendChunk or a finalize on a store that is already
\* finalized ends in an error
C12_OutOfOrderRejected ==
  ( /\ storeLog # << >>
    /\ storeLog[Len(storeLog)].op \in {"appendChunk", "finalize"}
    /\ finalizedBefore(Len(storeLog)) )
  => storeLast.st = "error"

\* C13 as claimed: after a dispose the store holds nothing, however often
\* dispose is called, and every later readFile fails, whatever calls lie
\* between
C13_DisposedTerminal ==
  /\ ( storeLog # << >> /\ storeLog[Len(storeLog)].op = "dispose" ) =>
       blob = NullBlob /\ chunks = << >> /\ indexMap = << >>
  /\ ( /\ storeLog # << >>
       /\ storeLog[Len(storeLog)].op = "readFile"
       /\ lastDispose # 0 )
     => storeLast.st = "error"

\* C14: a readFile on a store that was never finalized fails, for every
\* path, and no range read is issued
C14_ReadBeforeFinalize ==
  ( /\ storeLog # << >>
    /\ \A i \in 1..Len(storeLog) : storeLog[i].op # "finalize" )
  => /\ rangeReads = 0
     /\ storeLog[Len(storeLog)].op = "readFile" =>
          /\ storeLast.op = "readFile"
          /\ storeLast.path = storeLog[Len(storeLog)].path
          /\ storeLast.st = "error"

C14_Witness ==
  /\ storeLog # << >>
  /\ \A i \in 1..Len(storeLog) : storeLog[i].op # "finalize"
  /\ \E i \in 1..Len(storeLog) : storeLog[i].op = "appendChunk"
  /\ storeLog[Len(storeLog)].op = "readFile"
  /\ storeLog[Len(storeLog)].path = "pkg/a.txt"
  /\ storeLast.st = "error"
  /\ chunks # << >>

\* C15 as claimed: a readFile whose range read asks for bytes past the end of
\* the stored bytes (offset + size > N) ends in an error
C15_OutOfBoundsRejected ==
  ( /\ storeLog # << >>
    /\ storeLog[Len(storeLog)].op = "readFile"
    /\ needsRange(storeLog[Len(storeLog)].path)
    /\ mapGet(indexMap, storeLog[Len(storeLog)].path).offset
         + mapGet(indexMap, storeLog[Len(storeLog)].path).size > RLen(blob.bytes) )
  => storeLast.st = "error"

\* C16: on a finalized store that is not disposed, readFile throws "File not
\* in index" for a path the index lacks, gives ("", isBinary=false) for a
\* directory and ("", isBinary=true) for an entry marked binary, and in these
\* three cases issues no range read
C16_NoRangeReadCases ==
  [][ \A path \in StorePaths :
        ( /\ ~blob.isNull
          /\ Len(storeLog') = Len(storeLog) + 1
          /\ storeLog'[Len(storeLog')].op = "readFile"
          /\ storeLog'[Len(storeLog')].path = path )
        => /\ ~mapHas(indexMap, path) =>
                /\ storeLast' = StoreError(path, << "File not in index: ", path >>)
                /\ rangeReads' = rangeReads
           /\ ( mapHas(indexMap, path) /\ mapGet(indexMap, path).isDir ) =>
                /\ storeLast' = StoreResult(path, << >>, FALSE)
                /\ rangeReads' = rangeReads
           /\ ( /\ mapHas(indexMap, path)
                /\ ~mapGet(indexMap, path).isDir
                /\ mapGet(indexMap, path).isBinary ) =>
                /\ storeLast' = StoreResult(path, << >>, TRUE)
                /\ rangeReads' = rangeReads ]_vars

C16_Witness ==
  /\ ~blob.isNull /\ RLen(blob.bytes) > 0
  /\ rangeReads > 0
  /\ storeLast = StoreResult("pkg/big.bin", << >>, TRUE)

\* C17 as claimed: a tgz archive whose HEAD request reports at least
\* 5*1024*1024 bytes is loaded through indexTgz, a smaller one through
\* fetchAndParseTgz
C17_ModeBoundary ==
  search.mode # "none" =>
    ( search.mode = "indexTgz" <=> search.size >= 5 * 1024 * 1024 )

\* C18: a Read that finds leftover bytes returns min(len(p), leftover) bytes
\* from the front of the leftover, keeps the rest and makes no reader.read()
\* call; a Read that finds none, on a reader that has not seen the end, makes
\* exactly one reader.read() call and returns up to len(p) bytes of the chunk
\* it gives, keeping the rest as leftover, or io.EOF when it gives done
C18_ReadContract ==
  /\ srPc = "await" =>
       /\ RLen(readLast.leftover) = 0 /\ ~readLast.doneBefore
       /\ pulled = readLast.pulledBefore + 1 /\ pulls = 1
  /\ ( srPc = "idle" /\ readLast.err # "none" ) =>
       /\ RLen(readLast.leftover) > 0 =>
            /\ readLast.n = Min(readLast.lenp, RLen(readLast.leftover))
            /\ readLast.data = RTake(readLast.leftover, readLast.n)
            /\ readLast.err = "nil"
            /\ srBuf = RDrop(readLast.leftover, readLast.n)
            /\ pulled = readLast.pulledBefore
       /\ ( RLen(readLast.leftover) = 0 /\ ~readLast.doneBefore ) =>
            /\ pulled = readLast.pulledBefore + 1 /\ pulls = 0
            /\ readLast.event.kind \in {"chunk", "done", "error"}
            /\ readLast.event.kind = "chunk" =>
                 /\ readLast.n = Min(readLast.lenp, RLen(readLast.event.data))
                 /\ readLast.data = RTake(readLast.event.data, readLast.n)
                 /\ readLast.err = "nil"
                 /\ srBuf = RDrop(readLast.event.data, readLast.n)
            /\ readLast.event.kind = "done" =>
                 /\ readLast.n = 0 /\ readLast.err = "EOF" /\ srDone

C18_Witness ==
  /\ srPc = "idle" /\ pulled >= 2
  /\ RLen(readLast.leftover) > 0
  /\ readLast.n > 0 /\ readLast.n < RLen(readLast.leftover)
  /\ readLast.err = "nil"

\* the chunks of the first k events of a body, concatenated
RECURSIVE chunksOf(_, _)
chunksOf(src, k) ==
  IF k = 0 THEN << >> ELSE RCat(chunksOf(src, k - 1), src[k].data)

\* C19: whatever the body's chunks and the Read sizes, the bytes the Read
\* calls returned, followed by the leftover, are the chunks delivered so far
\* in delivery order, the delivered chunks are a prefix of the body's, a Read
\* that ends in io.EOF has returned them all, and at most one reader.read()
\* promise is outstanding
C19_InOrderDelivery ==
  /\ pulls <= 1
  /\ RCat(returned, srBuf) = delivered
  /\ \E src \in Sources : \E k \in 0..(Len(src) - 1) :
        /\ source = SubSeq(src, k + 1, Len(src))
        /\ delivered = chunksOf(src, k)
  /\ readLast.err = "EOF" =>
       /\ returned = delivered
       /\ source[1].kind = "done"

C19_Witness ==
  /\ readLast.err = "EOF" /\ srPc = "idle"
  /\ pulled >= 4
  /\ RLen(returned) = 28

\* C20 as claimed: when a fetchAndParseTgz or indexTgz call whose fetch gave
\* a response has finished, the response's body was cancelled exactly once,
\* whether the call resolved, the parse failed or the status was a failure
C20_ReleasedOnce ==
  ( op \in FetchOps /\ pc = "idle" /\ settles >= 1 /\ ~resp.throws ) =>
    cancels = 1

\* C21: a drain that fails (the stream fails or ends inside the data of an
\* oversized entry, or inside the remainder of a sniffed entry in lazy mode)
\* leaves its error in the archive reader while the call is still pending,
\* and a call in which a read failed is rejected, never resolved
C21_DrainFailureSurfaces ==
  /\ ( pc = "next" /\ failure # ErrNone ) =>
       /\ trErr = failure
       /\ trErr \notin {ErrNone, ErrEOF}
       /\ last.st = "pending" /\ settles = 0
  /\ ( pc = "idle" /\ op \in EagerOps \cup {"indexTgz"} /\ failure # ErrNone ) =>
       last.st = "rejected" /\ last.value = << >>

C21_Witness ==
  /\ op = "indexTgz" /\ pc = "next" /\ failure # ErrNone
  /\ ~entry.isBinary
  /\ Members(aid)[hdr].size > binaryCheckSize
  /\ Members(aid)[hdr].size <= maxFileContentSize

\* C26: in the index of a resolved indexTgz call, the data range of every
\* regular-file entry ends inside the bytes that were forwarded to the sink
C26_RangesInBounds ==
  lazy.have =>
    \A i \in 1..Len(lazy.files) :
      isRegular(aid, i) =>
        /\ lazy.files[i].offset >= 0
        /\ lazy.files[i].offset + lazy.files[i].size <= RLen(BlobOf(lazy.chunks))

C26_Witness ==
  /\ lazy.have /\ op = "indexTgz" /\ pc = "idle"
  /\ \E i \in 1..Len(lazy.files) :
        /\ isRegular(aid, i)
        /\ lazy.files[i].size > maxFileContentSize
        /\ lazy.files[i].offset > 0

\* C27 as claimed: in the index of a resolved indexTgz call every entry with
\* isDir = false and isBinary = false has as offset the position of its own
\* data in the forwarded stream
C27_RealOffsets ==
  lazy.have =>
    \A i \in 1..Len(lazy.files) :
      ( ~lazy.files[i].isDir /\ ~lazy.files[i].isBinary ) =>
        lazy.files[i].offset = DataStart(aid, i)

\* C23: highlight results are never stale -- highlighted lines are only ever
\* applied for the file currently passed to the hook: whenever the hook's
\* highlightedLines change to lines, those are the lines of the current file,
\* which is neither null, nor binary, nor empty
C23_NeverStale ==
  [][ ( highlightedLines' # highlightedLines /\ highlightedLines' # NoLines )
      => /\ ~nothingToHighlight(hlFile')
         /\ highlightedLines' = highlight(hlFile'.content, hlFile'.path) ]_vars

\* C25: corsFetch with needsCors=true tries the proxies in cyclic order
\* starting at the active proxy index, each at most once, returns on the first
\* ok response and throws after exactly one attempt per proxy; with
\* needsCors=false it makes one direct fetch and uses no proxy
C25_CyclicOnce ==
  \A k \in 1..Len(corsCalls) :
    LET c == corsCalls[k]
    IN  IF c.needsCors
          THEN /\ c.direct = 0
               /\ \A j \in 1..Len(c.tried) : c.tried[j] = (c.start + j - 1) % c.length
               /\ Len(c.tried) <= c.length
               /\ c.pc = "thrown" => Len(c.tried) = c.length
               /\ c.pc = "returned" => c.res = "ok"
          ELSE c.direct = 1 /\ c.tried = << >>

\* C22: a failed lazy index is never trusted -- a TarStore whose
\* __wasm_indexTgz rejected after chunks were appended is never finalized,
\* never becomes the current store, and no readFile on it ever succeeds
C22_FailedIndexDiscarded ==
  \A x \in 1..Len(appStores) :
    ( appStores[x].rejected /\ appStores[x].appended > 0 ) =>
      /\ ~appStores[x].finalized
      /\ ~appStores[x].blob
      /\ ~appStores[x].wasCurrent
      /\ tarStoreRef # x
      /\ appStores[x].served = 0
      /\ \A k \in 1..Len(selects) : selects[k].store # x
      /\ searches[appStores[x].owner].pc = "failed"

C22_Witness ==
  \E x \in 1..Len(appStores) :
    /\ appStores[x].rejected /\ appStores[x].appended > 0
    /\ appStatus = "error"
    /\ latest = appStores[x].owner

\* C24: loaded lazy files are cached -- selecting a file whose content a
\* handleSelectFile has loaded into the shown list issues no TarStore.readFile
\* and shows the cached content
C24_LoadedFilesCached ==
  [][ \A i \in 1..Len(AppPaths) :
        ( handleSelectFile(i) /\ appFiles[i].path \in loaded ) =>
          /\ storeReads' = storeReads
          /\ selects' = selects
          /\ selectedFile' = appFiles[i]
          /\ ~selectedFile'.lazy
          /\ selectedFile'.content # << >> ]_vars

C24_Witness ==
  /\ appStatus = "success"
  /\ storeReads = 1
  /\ \E i \in 1..Len(appFiles) :
       /\ appFiles[i].path \in loaded
       /\ selectedFile = appFiles[i]
       /\ appFiles[i].content = Text(searches[appFiles[i].from].name, appFiles[i].path)
  /\ \E k \in 1..Len(selects) : selects[k].pc = "done"

\* C28: overlapping searches do not mix results -- once a search that
\* started while an earlier one was awaiting and every other search have
\* finished, files, package info, status and tarStoreRef.current are those of
\* the search started last, and every other TarStore has been disposed
C28_LatestSearchWins ==
  ( /\ latest # 0 /\ latest = Len(searches)
    /\ searches[latest].overlap
    /\ \A t \in 1..Len(searches) : ~awaiting(searches[t]) )
  => /\ \A i \in 1..Len(appFiles) : appFiles[i].from = latest
     /\ packageInfo \in {0, latest}
     /\ appStatus = ( IF searches[latest].pc = "done" THEN "success" ELSE "error" )
     /\ tarStoreRef \in {0, searches[latest].store}
     /\ \A x \in 1..Len(appStores) : x # tarStoreRef => ~appStores[x].blob

\* C29: no stale file after a new load -- a readFile of handleSelectFile that
\* settles after its store was disposed changes neither selectedFile nor the
\* files list
C29_NoStaleFile ==
  [][ \A k \in 1..Len(selects) :
        ( /\ selects[k].pc = "read" /\ selects'[k].pc # "read"
          /\ appStores[selects[k].store].disposed )
        => ( selectedFile' = selectedFile /\ appFiles' = appFiles ) ]_vars

\* C30: termination of a parse or index pass -- over a finite source whose
\* pulls all resolve, a started call ends with its promise settled once, as a
\* result or an error, every Read that waits for a pull returns, and once the
\* source has signalled completion no further reader.read() is made
C30_PassTerminates ==
  /\ ( pc # "idle" ) ~> ( pc = "idle" /\ settles = 1 /\ last.st \in {"resolved", "rejected"} )
  /\ ( srPc = "await" ) ~> ( srPc = "idle" )
  /\ [][ ( srDone \/ readLast.event.kind = "done" ) => pulled' = pulled ]_vars

C30_Witness ==
  /\ op = "indexTgz" /\ pc = "idle" /\ settles = 1
  /\ last.st = "rejected" /\ failure = ErrUnexpectedEOF
  /\ Len(sink) > 0

====
